---- MODULE Spec2Model ----
(***************************************************************************)
(* Purrimeter Defense: the rule engine (AlertStateTracker), the pipeline   *)
(* manager's alert reactions and rule mutations, the recorder's active set,*)
(* the inference permit, and the camera registry with the frame sources    *)
(* and their capture threads, as state machines.                           *)
(*                                                                         *)
(* Time is counted in whole seconds and kept relative to the present: a    *)
(* timestamp is stored as the seconds elapsed since it was taken (up to    *)
(* MaxAge, beyond which no comparison of the program can tell), a sleep as *)
(* the seconds left.  A cooperative task is modelled by its position (pc)  *)
(* at the awaits where it really suspends; everything a task does between  *)
(* two suspensions is one atomic action.                                   *)
(***************************************************************************)
EXTENDS Integers, Sequences, FiniteSets, TLC

\* ------------------------------------------------------------------ bounds
MaxAlerts == 2       \* alert ids (uuid4) handed out
MaxOps == 1          \* add_rule / remove_rule / update_rule calls
MaxEntries == 3      \* key slots used in the _rule_states dict
MaxConsecutive == 4  \* cap of consecutive_detections
MaxStreams == 2      \* CameraStream objects constructed by add_camera
MaxFrames == 1       \* frames the ring buffer holds (its maxlen)
MaxAttempts == 4     \* cap of _reconnect_attempts (the delay is above the join timeout)
BufferCapacity == 3  \* settings.FRAME_BUFFER_SIZE of the streams whose frames are followed
MaxCaptured == 6     \* frames a followed stream captures
MaxHalfSeconds == 4  \* the longest pre-roll asked for, in half seconds

\* --------------------------------------------------------------- constants
\* settings.DETECTION_SAMPLE_RATE = 0.5 samples per second
SampleIntervalSeconds == 2
RECORDING_POST_ROLL_SECONDS == 3
\* the sleep after a failed cycle of the per-camera loop
ErrorBackoffSeconds == 1
\* settings.DETECTION_CONSECUTIVE_FRAMES: the default (1 = instant); the
\* setting is read from the environment, 3 is the debounced deployment.
DETECTION_CONSECUTIVE_FRAMES == 1
ConsecutiveFramesChoices == {DETECTION_CONSECUTIVE_FRAMES, 3}
\* the RuleState dataclass default, used when update_rule builds the state
RuleStateDefaultRequired == 1
\* threading.Semaphore(1) and ThreadPoolExecutor(max_workers=2) of sam3_service
InferencePermits == 1
ExecutorWorkers == 2

NULL == 0            \* None for an alert id or a recording id
NoTime == -1         \* None for last_triggered
DUMMY == "dummy"     \* a deleted key slot of the dict

RuleIds == {"r1", "r2"}
CameraId == "cam1"
\* the label each rule watches (rules of different labels trigger
\* independently of each other)
TargetOf(id) == IF id = "r1" THEN "cat" ELSE "dog"
\* Rule.cooldown_seconds of the rules exercised
CooldownChoices == {5}
AlertIds == 1..MaxAlerts
\* timestamps older than every cooldown are all alike
MaxAge == CHOOSE c \in CooldownChoices : \A d \in CooldownChoices : d <= c

\* rule_engine._on_alert_callbacks / _on_alert_end_callbacks: the pipeline
\* manager's handlers (registered in its constructor) and one live event
\* stream subscriber (websocket_alerts), in registration order.
on_alert_callbacks == <<"pm", "ws">>
on_alert_end_callbacks == <<"pm", "ws">>
Consumers == {"pm", "ws"}

Rule(id, target, cooldown, enabled) ==
    [id |-> id, camera_id |-> CameraId, primary_target |-> target,
     cooldown_seconds |-> cooldown, enabled |-> enabled]

\* the rule definitions the routes hand to the manager: add_rule and
\* update_rule are only called with enabled rules (a disabled rule is removed)
RulesFor(id) == {Rule(id, TargetOf(id), c, TRUE) : c \in CooldownChoices}

NoRule == Rule("none", "none", 0, FALSE)

RuleState(rule, last_triggered, required) ==
    [rule |-> rule, last_triggered |-> last_triggered, current_alert_id |-> NULL,
     is_in_alert |-> FALSE, consecutive_detections |-> 0,
     required_consecutive |-> required]

NoState == RuleState(NoRule, NoTime, 0)

VARIABLES
    consecutive_frames, \* settings.DETECTION_CONSECUTIVE_FRAMES
    rule_states,        \* RuleEngine._rule_states: rule id -> RuleState
    entries,            \* the key slots of _rule_states, in insertion order
    next_alert,         \* alert ids handed out so far
    rules,              \* PipelineState.rules
    active_alerts,      \* PipelineState.active_alerts: alert id -> recording id
    active_recordings,  \* RecordingService._active_recordings
    next_recording,     \* recording ids handed out so far
    loop,               \* the per-camera task (_process_pipeline)
    api,                \* the task of a rule mutation in flight
    ops,                \* rule mutations started
    startCnt,           \* deliveries of 'alert start' per consumer and alert id
    endCnt,             \* deliveries of 'alert end' per consumer and alert id
    replaced,           \* alerts closed by an update_rule call that has returned
    since_end,          \* seconds since the last alert of a rule id was closed
    log,                \* what the last evaluation step did, rule by rule
    streak,             \* triggered evaluations in a row, per registered rule
    followed,           \* how far ExampleRule's evaluations follow Example
    alert_rule,         \* the rule id each alert id was opened for
    cb_failed,          \* the last failure of an alert callback and what followed
    rec_failed,         \* alert ids whose start_recording call raised
    use_streaming,      \* SAM3Service._use_streaming
    sem,                \* permits left in _inference_semaphore
    inference_lock,     \* the holder of SAM3Service._inference_lock
    calls,              \* the detect_objects call of each caller
    manager_running,    \* PipelineManager._running
    pipelines,          \* PipelineManager._pipelines: camera id -> PipelineState
    streams,            \* the CameraStream objects, with their capture threads
    tasks,              \* the per-camera task launched for each stream object
    mgr,                \* the call that holds PipelineManager._lock
    reachable,          \* the camera answers on its RTSP address
    last_add,           \* what the last add_camera call did
    removed,            \* stream objects whose remove_camera call has returned
    frame_buffer,       \* CameraStream._frame_buffer: frame numbers, oldest first
    frame_count,        \* CameraStream._frame_count
    since_clear,        \* frames captured since the buffer was last cleared
    pre_roll,           \* the last get_pre_roll_frames call and what it returned
    spatial,            \* the last spatial check or spatial rule evaluation
    recorder,           \* the recording of RecordingService and its files
    stop_calls          \* the stop_recording calls made for that recording

ghostVars == <<streak, followed, alert_rule, cb_failed, rec_failed>>

inferVars == <<use_streaming, sem, inference_lock, calls>>

camVars == <<manager_running, pipelines, streams, tasks, mgr, reachable, last_add,
             removed>>

mediaVars == <<frame_buffer, frame_count, since_clear, pre_roll, spatial, recorder,
               stop_calls>>

vars == <<consecutive_frames, rule_states, entries, next_alert, rules,
          active_alerts, active_recordings, next_recording, loop, api, ops,
          startCnt, endCnt, replaced, since_end, log, streak, followed,
          alert_rule, cb_failed, rec_failed, use_streaming, sem, inference_lock, calls,
          manager_running, pipelines, streams, tasks, mgr, reachable, last_add,
          removed, frame_buffer, frame_count, since_clear, pre_roll, spatial,
          recorder, stop_calls>>

\* ----------------------------------------------------------- dict helpers
InDict(rid) == \E i \in 1..Len(entries) : entries[i] = rid

LiveCount == Cardinality({i \in 1..Len(entries) : entries[i] # DUMMY})

\* dictiter_iternextitem: the first live slot at or after pos, 0 when none
NextLive(pos) ==
    LET live == {i \in pos..Len(entries) : entries[i] # DUMMY}
    IN IF live = {} THEN 0 ELSE CHOOSE i \in live : \A j \in live : i <= j

DictInsert(rid) == IF InDict(rid) THEN entries ELSE Append(entries, rid)

DictDelete(rid) == [i \in 1..Len(entries) |-> IF entries[i] = rid THEN DUMMY ELSE entries[i]]

\* -------------------------------------------------------------- the tasks
LoopSleeping(wake) ==
    [pc |-> "sleep", wake |-> wake, detections |-> {}, di_pos |-> 0, di_used |-> 0,
     rule_id |-> "none", attached |-> FALSE, alert |-> NULL, state_alert |-> NULL,
     rule |-> NoRule, rec |-> NULL, cb |-> 0, failed |-> FALSE, faulty |-> {},
     skipped |-> "none"]

\* what a state object shows of the alert machine
Snapshot(st) ==
    [is_in_alert |-> st.is_in_alert, current_alert_id |-> st.current_alert_id,
     consecutive_detections |-> st.consecutive_detections]

ApiIdle ==
    [pc |-> "idle", wake |-> 0, rule |-> NoRule, old_alert |-> NULL,
     old_rule |-> NoRule, rec |-> NULL, cb |-> 0, installed |-> Snapshot(NoState)]

ZeroCnt == [c \in Consumers |-> [a \in 0..MaxAlerts |-> 0]]

Bump(cnt, c, a) == [cnt EXCEPT ![c][a] = @ + 1]

RegisterAll(seq) ==
    [r \in RuleIds |->
        IF \E i \in 1..Len(seq) : seq[i].id = r
        THEN RuleState((CHOOSE x \in {seq[i] : i \in 1..Len(seq)} : x.id = r),
                       NoTime, consecutive_frames)
        ELSE NoState]

\* the debounce example: evaluation outcomes of ExampleRule since startup
Example == <<TRUE, TRUE, FALSE, TRUE, TRUE, TRUE>>
ExampleRule == "r1"

Callers == {"cam1", "cam2", "route"}
\* the per-camera loops pass their camera id, the detection routes none
HasCameraId(c) == c # "route"
NoCall == [pc |-> "idle", held |-> 0]

NoFailure ==
    [kind |-> "none", alert |-> NULL, rule_id |-> "none", stands |-> TRUE,
     continued |-> TRUE]

\* the alert machine after startup (main.lifespan) with the rules of seq
\* added in order and a subscriber connected
AlertsStarted(seq) ==
    /\ rules = seq
    /\ entries = [i \in 1..Len(seq) |-> seq[i].id]
    /\ rule_states = RegisterAll(seq)
    /\ next_alert = 0
    /\ active_alerts = [a \in 0..MaxAlerts |-> NULL]
    /\ active_recordings = {}
    /\ next_recording = 0
    /\ loop = LoopSleeping(0)
    /\ api = ApiIdle
    /\ ops = 0
    /\ startCnt = ZeroCnt
    /\ endCnt = ZeroCnt
    /\ replaced = {}
    /\ since_end = [r \in RuleIds |-> NoTime]
    /\ log = <<>>
    /\ streak = [r \in RuleIds |-> 0]
    /\ followed = [n |-> 0, on |-> TRUE]
    /\ alert_rule = [a \in AlertIds |-> "none"]
    /\ cb_failed = NoFailure
    /\ rec_failed = {}

\* the inference service with no call in flight
InferenceIdle ==
    /\ sem = InferencePermits
    /\ inference_lock = "free"
    /\ calls = [c \in Callers |-> NoCall]

StreamIds == 1..MaxStreams

\* CameraStream(...) as the dataclass constructs it; thread is the position
\* of _read_frames_loop ("none": never started), delay the sleep it is in,
\* made tells the slot is used
NewStream ==
    [made |-> FALSE, running |-> FALSE, status |-> "disconnected",
     capture |-> "none", buffer |-> 0, failures |-> 0, attempts |-> 0,
     thread |-> "none", via |-> "none", delay |-> 0, fresh |-> FALSE,
     stopped |-> FALSE]

\* a stopped object that is out of the registry and whose thread has ended:
\* nothing refers to it any more, it is dropped
Dropped == [NewStream EXCEPT !.made = TRUE, !.thread = "exited", !.stopped = TRUE]

NoPipeline == [stream |-> NULL, is_running |-> FALSE]

MgrIdle == [pc |-> "idle", kind |-> "none", stream |-> NULL]

NoAdd == [result |-> "none", untouched |-> TRUE, clean |-> TRUE]

\* PipelineManager after start(), before any add_camera
CamerasIdle ==
    /\ manager_running = TRUE
    /\ pipelines = [c \in {CameraId} |-> NoPipeline]
    /\ streams = [s \in StreamIds |-> NewStream]
    /\ tasks = [s \in StreamIds |-> "none"]
    /\ mgr = MgrIdle
    /\ reachable = TRUE
    /\ last_add = NoAdd
    /\ removed = {}

NoSpatial == [kind |-> "none"]

\* the callers of stop_recording: the alert-end handler of the loop and the
\* one update_rule makes
StopCallers == {"loop", "api"}

\* no start_recording call yet.  pc: "idle", "snapshot" (pre-roll taken),
\* "built" (the ActiveRecording is built, not registered), "active"
\* (start_recording returned), "failed" (it raised).  cb: "writing" while
\* the capture thread is inside the recording's frame callback, holding the
\* stream's _lock.
NoRecording ==
    [mode |-> "none", pc |-> "idle", snapshot |-> <<>>, written |-> <<>>,
     due |-> <<>>, subscribed |-> FALSE, registered |-> FALSE, expired |-> FALSE,
     released |-> FALSE, has_pre_roll |-> FALSE, files |-> {}, output |-> "none",
     cb |-> "idle"]

\* no stop_recording call yet.  pc: "idle", "postroll", "finalised",
\* "returned", "raised".
NoStop == [pc |-> "idle", second |-> FALSE, result |-> "pending", outcome |-> "none",
           had_main |-> FALSE]

NoPreRoll == [called |-> FALSE, halves |-> 0, fps |-> 0, of |-> <<>>, frames |-> <<>>]

\* a CameraStream that has captured nothing, and no recording made
MediaIdle ==
    /\ frame_buffer = <<>>
    /\ frame_count = 0
    /\ since_clear = 0
    /\ pre_roll = NoPreRoll
    /\ spatial = NoSpatial
    /\ recorder = NoRecording
    /\ stop_calls = [c \in StopCallers |-> NoStop]

\* One camera with one enabled rule, the default debounce setting; further
\* rules arrive through add_rule.
Init ==
    /\ consecutive_frames = DETECTION_CONSECUTIVE_FRAMES
    /\ \E r1 \in RulesFor("r1") : AlertsStarted(<<r1>>)
    /\ use_streaming = TRUE
    /\ InferenceIdle
    /\ CamerasIdle
    /\ MediaIdle

Older(t) == IF t = NoTime \/ t >= MaxAge THEN t ELSE t + 1

Sooner(d) == IF d > 0 THEN d - 1 ELSE 0

\* one second passes
Tick ==
    /\ rule_states' = [r \in RuleIds |->
                          [rule_states[r] EXCEPT !.last_triggered = Older(@)]]
    /\ since_end' = [r \in RuleIds |-> Older(since_end[r])]
    /\ loop' = [loop EXCEPT !.wake = Sooner(@)]
    /\ api' = [api EXCEPT !.wake = Sooner(@)]
    /\ log' = <<>>
    /\ UNCHANGED <<consecutive_frames, entries, next_alert, rules, active_alerts,
                   active_recordings, next_recording, ops, startCnt, endCnt, replaced>>
    /\ UNCHANGED ghostVars
    /\ UNCHANGED <<inferVars, camVars, mediaVars>>

\* ------------------------------------------------- the evaluation of rules
\* The part of the state one run of evaluate_rules reads and writes, as a
\* record: rs = rule_states, lp = loop, na = next_alert, sc = startCnt,
\* ec = endCnt, aa = active_alerts, se = since_end, lg = log; ok is FALSE
\* when the run needs an alert id beyond MaxAlerts or a count beyond
\* MaxConsecutive (the step is then not taken).
Model ==
    [rs |-> rule_states, lp |-> loop, na |-> next_alert, sc |-> startCnt,
     ec |-> endCnt, aa |-> active_alerts, se |-> since_end, lg |-> <<>>,
     ok |-> TRUE]

LogEntry(rid, before, after, evaluated, triggered, started, ended) ==
    [rule_id |-> rid, since_end |-> since_end[rid], before |-> before, after |-> after,
     evaluated |-> evaluated, triggered |-> triggered, started |-> started,
     ended |-> ended, raised |-> FALSE]

\* the cycle ends here, at once
CycleEnded == [LoopSleeping(0) EXCEPT !.pc = "ended"]

\* `except Exception` of _process_pipeline: the error is logged, the task
\* sleeps the backoff and goes on with a further cycle
CycleFailed == [LoopSleeping(ErrorBackoffSeconds) EXCEPT !.failed = TRUE]

\* pipeline.active_alerts.pop(alert_id) and the lookup that opens
\* stop_recording: the handler then sleeps the post-roll ("postroll") when
\* the recording is active, else goes on to the alert record ("db").
OnAlertEndedEnter(aa, alert) ==
    LET rec == aa[alert]
        found == rec # NULL /\ \E x \in active_recordings : x.recording_id = rec
    IN [aa |-> [aa EXCEPT ![alert] = NULL],
        rec |-> IF found THEN rec ELSE NULL,
        phase |-> IF found THEN "postroll" ELSE "db"]

\* _evaluate_single_rule, condition OBJECT_DETECTED: the primary target has
\* at least one detection in the snapshot.
EvaluateSingleRule(rule, detections) == rule.primary_target \in detections

\* the gate without its exemption of open alerts
CooldownGateAnyState(st) ==
    /\ st.last_triggered # NoTime
    /\ st.last_triggered < st.rule.cooldown_seconds

\* the gate with its comparison turned around
CooldownGateReversed(st) ==
    /\ st.last_triggered # NoTime
    /\ st.last_triggered >= st.rule.cooldown_seconds
    /\ ~st.is_in_alert

\* the cooldown gate of evaluate_rules
CooldownGate(st) ==
    /\ st.last_triggered # NoTime
    /\ st.last_triggered < st.rule.cooldown_seconds
    /\ ~st.is_in_alert

RECURSIVE IterateRules(_), StartCallbacks(_, _), EndCallbacks(_, _)

\* the rest of `for callback in self._on_alert_callbacks`, from index i on;
\* the alert id and the rule are read from the state object at every call.
StartCallbacks(m, i) ==
    IF i > Len(on_alert_callbacks)
    THEN IterateRules([m EXCEPT !.lp = [@ EXCEPT !.rule_id = "none", !.attached = FALSE,
                                           !.alert = NULL, !.state_alert = NULL,
                                           !.rule = NoRule, !.rec = NULL, !.cb = 0]])
    ELSE IF on_alert_callbacks[i] = "pm"
    THEN [m EXCEPT !.sc = Bump(@, "pm", m.lp.state_alert),
                   !.lp = [@ EXCEPT !.pc = "trig_db", !.cb = i,
                                    !.alert = m.lp.state_alert]]
    ELSE StartCallbacks([m EXCEPT !.sc = Bump(@, on_alert_callbacks[i], m.lp.state_alert)],
                        i + 1)

\* the rest of `for callback in self._on_alert_end_callbacks`, from index i
\* on, with the alert id kept in the local alert_id.
EndCallbacks(m, i) ==
    IF i > Len(on_alert_end_callbacks)
    THEN IterateRules([m EXCEPT !.lp = [@ EXCEPT !.rule_id = "none", !.attached = FALSE,
                                           !.alert = NULL, !.state_alert = NULL,
                                           !.rule = NoRule, !.rec = NULL, !.cb = 0]])
    ELSE IF on_alert_end_callbacks[i] = "pm"
    THEN LET e == OnAlertEndedEnter(m.aa, m.lp.alert)
         IN [m EXCEPT !.ec = Bump(@, "pm", m.lp.alert),
                      !.aa = e.aa,
                      !.lp = [@ EXCEPT !.pc = "end_" \o e.phase, !.cb = i, !.rec = e.rec,
                                       !.wake = IF e.phase = "postroll"
                                                THEN RECORDING_POST_ROLL_SECONDS
                                                ELSE 0]]
    ELSE EndCallbacks([m EXCEPT !.ec = Bump(@, on_alert_end_callbacks[i], m.lp.alert)],
                      i + 1)

\* the debounce test with a strict comparison
ThresholdPassed(st, counted) ==
    ~st.is_in_alert /\ counted.consecutive_detections > st.required_consecutive

\* `if not state.is_in_alert and state.consecutive_detections >=
\* state.required_consecutive`, after the increment
ThresholdReached(st, counted) ==
    ~st.is_in_alert /\ counted.consecutive_detections >= st.required_consecutive

\* an alert id taken from a fixed value instead of a fresh one
SameAlertId(na) == 1

\* str(uuid.uuid4()): an id never handed out before
NewAlertId(na) == na + 1

\* _handle_state_transition for the state object of rule rid
HandleStateTransition(m, rid, triggered) ==
    LET st == m.rs[rid]
        counted == [st EXCEPT !.consecutive_detections = @ + 1]
        opened == [counted EXCEPT !.is_in_alert = TRUE, !.last_triggered = 0,
                                  !.current_alert_id = NewAlertId(m.na)]
        reset == [st EXCEPT !.consecutive_detections = 0]
        closed == [reset EXCEPT !.is_in_alert = FALSE, !.current_alert_id = NULL]
    IN IF triggered /\ st.consecutive_detections >= MaxConsecutive
       THEN [m EXCEPT !.ok = FALSE]
       ELSE IF triggered
       THEN IF ThresholdReached(st, counted)
            THEN IF m.na >= MaxAlerts
                 THEN [m EXCEPT !.ok = FALSE]
                 ELSE StartCallbacks(
                        [m EXCEPT !.rs[rid] = opened,
                                  !.na = @ + 1,
                                  !.lg = Append(@, LogEntry(rid, st, opened, TRUE, TRUE,
                                                            NewAlertId(m.na), NULL)),
                                  !.lp = [@ EXCEPT !.rule_id = rid, !.attached = TRUE,
                                                   !.state_alert = NewAlertId(m.na),
                                                   !.rule = st.rule]],
                        1)
            ELSE IterateRules(
                   [m EXCEPT !.rs[rid] = counted,
                             !.lg = Append(@, LogEntry(rid, st, counted, TRUE, TRUE,
                                                       NULL, NULL))])
       ELSE IF st.is_in_alert
            THEN EndCallbacks(
                   [m EXCEPT !.rs[rid] = closed,
                             !.se[rid] = 0,
                             !.lg = Append(@, LogEntry(rid, st, closed, TRUE, FALSE,
                                                       NULL, st.current_alert_id)),
                             !.lp = [@ EXCEPT !.rule_id = rid, !.attached = TRUE,
                                              !.alert = st.current_alert_id,
                                              !.rule = st.rule]],
                   1)
            ELSE IterateRules(
                   [m EXCEPT !.rs[rid] = reset,
                             !.lg = Append(@, LogEntry(rid, st, reset, TRUE, FALSE,
                                                       NULL, NULL))])

\* `for rule_id, state in self._rule_states.items()`: the iterator raises
\* RuntimeError when the dict changed size, ends after the last live slot,
\* and else yields the next rule with its current state object.
IterateRules(m) ==
    IF m.lp.di_used # LiveCount
    THEN [m EXCEPT !.lp = CycleFailed]
    ELSE LET i == NextLive(m.lp.di_pos)
         IN IF i = 0
            THEN [m EXCEPT !.lp = LoopSleeping(SampleIntervalSeconds)]
            ELSE LET rid == entries[i]
                     st == m.rs[rid]
                     m1 == [m EXCEPT !.lp = [@ EXCEPT !.di_pos = i + 1]]
                     skipped == [m1 EXCEPT !.lg = Append(@, LogEntry(rid, st, st, FALSE,
                                                                      FALSE, NULL, NULL))]
                 IN IF st.rule.camera_id # CameraId \/ ~st.rule.enabled
                    THEN IterateRules(skipped)
                    ELSE IF CooldownGate(st)
                    THEN IterateRules(skipped)
                    ELSE IF rid \in m.lp.faulty
                    THEN [m1 EXCEPT !.lp = CycleFailed,
                                    !.lg = Append(@, [LogEntry(rid, st, st, FALSE, FALSE,
                                                               NULL, NULL)
                                                        EXCEPT !.raised = TRUE])]
                    ELSE HandleStateTransition(
                           m1, rid, EvaluateSingleRule(st.rule, m.lp.detections))

Evaluated(lg, r) == {i \in 1..Len(lg) : lg[i].rule_id = r /\ lg[i].evaluated}

\* the run of triggered evaluations of each rule after the step logged in lg
StreakAfter(lg) ==
    [r \in RuleIds |->
        IF Evaluated(lg, r) = {} THEN streak[r]
        ELSE IF \E i \in Evaluated(lg, r) : ~lg[i].triggered THEN 0
        ELSE IF streak[r] < MaxConsecutive THEN streak[r] + 1 ELSE streak[r]]

\* the next evaluation of ExampleRule goes on along Example, or leaves it
FollowedAfter(lg) ==
    LET es == Evaluated(lg, ExampleRule)
    IN IF es = {} THEN followed
       ELSE IF followed.on /\ followed.n < Len(Example)
               /\ \A i \in es : lg[i].triggered = Example[followed.n + 1]
       THEN [followed EXCEPT !.n = @ + 1]
       ELSE [n |-> 0, on |-> FALSE]

AlertRuleAfter(lg) ==
    [a \in AlertIds |->
        IF \E i \in 1..Len(lg) : lg[i].started = a
        THEN lg[CHOOSE i \in 1..Len(lg) : lg[i].started = a].rule_id
        ELSE alert_rule[a]]

\* the rule id is registered anew: its history starts over
Forget(rid) ==
    /\ streak' = [streak EXCEPT ![rid] = 0]
    /\ followed' = IF rid = ExampleRule THEN [n |-> 0, on |-> FALSE] ELSE followed
    /\ UNCHANGED <<alert_rule, cb_failed, rec_failed>>

\* a step of the per-camera task that ends in the state m
LoopStep(m) ==
    /\ m.ok
    /\ rule_states' = m.rs
    /\ loop' = m.lp
    /\ next_alert' = m.na
    /\ startCnt' = m.sc
    /\ endCnt' = m.ec
    /\ active_alerts' = m.aa
    /\ since_end' = m.se
    /\ log' = m.lg
    /\ streak' = StreakAfter(m.lg)
    /\ followed' = FollowedAfter(m.lg)
    /\ alert_rule' = AlertRuleAfter(m.lg)
    /\ UNCHANGED <<inferVars, camVars, mediaVars>>

\* the targets of the enabled rules in pipeline.rules
Targets == {rules[i].primary_target : i \in {j \in 1..Len(rules) : rules[j].enabled}}

\* The top of a cycle of _process_pipeline: no frame yet (sleep 0.1 s and
\* retry), no targets (sleep the sample interval), or the inference call.
LoopWake ==
    /\ loop.pc = "sleep"
    /\ loop.wake = 0
    /\ \E frame \in BOOLEAN :
         loop' = IF ~frame THEN [LoopSleeping(0) EXCEPT !.skipped = "frame"]
                 ELSE IF Targets = {}
                 THEN [LoopSleeping(SampleIntervalSeconds) EXCEPT !.skipped = "targets"]
                 ELSE [loop EXCEPT !.pc = "detect", !.detections = Targets,
                                   !.failed = FALSE, !.skipped = "none"]
    /\ log' = <<>>
    /\ UNCHANGED <<consecutive_frames, rule_states, entries, next_alert, rules,
                   active_alerts, active_recordings, next_recording, api, ops,
                   startCnt, endCnt, replaced, since_end>>
    /\ UNCHANGED ghostVars
    /\ UNCHANGED <<inferVars, camVars, mediaVars>>

\* detect_objects returns a snapshot for the requested labels; evaluate_rules
\* then runs until its first suspension.
LoopDetected ==
    /\ loop.pc = "detect"
    /\ \E dets \in SUBSET loop.detections :
         LoopStep(IterateRules([Model EXCEPT !.lp = [@ EXCEPT !.detections = dets,
                                                          !.di_pos = 1,
                                                          !.di_used = LiveCount]]))
    /\ UNCHANGED <<consecutive_frames, entries, rules, active_recordings,
                   next_recording, api, ops, replaced, cb_failed, rec_failed>>

\* a failed start that leaves an entry in the open-alert map behind
StartFailureMapped(aa, alert) == [aa EXCEPT ![alert] = next_recording + 1]

\* start_recording raises inside the try block of _on_alert_triggered: the
\* assignment to pipeline.active_alerts is skipped, the error is logged
StartFailure(aa, alert) == aa

\* _on_alert_triggered after the alert record is saved: start_recording
\* registers the ActiveRecording and the open-alert map entry, or fails.
LoopStartRecording ==
    /\ loop.pc = "trig_db"
    /\ \E started \in BOOLEAN :
         IF started
         THEN /\ next_recording' = next_recording + 1
              /\ active_recordings' = active_recordings \cup
                    {[recording_id |-> next_recording + 1, alert_id |-> loop.alert]}
              /\ active_alerts' = [active_alerts EXCEPT ![loop.alert] = next_recording + 1]
              /\ rec_failed' = rec_failed \ {loop.alert}
         ELSE /\ active_alerts' = StartFailure(active_alerts, loop.alert)
              /\ rec_failed' = rec_failed \cup {loop.alert}
              /\ UNCHANGED <<next_recording, active_recordings>>
    /\ loop' = [loop EXCEPT !.pc = "trig_post"]
    /\ log' = <<>>
    /\ UNCHANGED <<consecutive_frames, rule_states, entries, next_alert, rules,
                   api, ops, startCnt, endCnt, replaced, since_end>>
    /\ UNCHANGED <<streak, followed, alert_rule, cb_failed>>
    /\ UNCHANGED <<inferVars, camVars, mediaVars>>

\* _on_alert_triggered returns (start-actions dispatched); the remaining
\* alert-start callbacks and the remaining rules follow.
LoopTriggeredReturn ==
    /\ loop.pc = "trig_post"
    /\ LoopStep(StartCallbacks(Model, loop.cb + 1))
    /\ UNCHANGED <<consecutive_frames, entries, rules, active_recordings,
                   next_recording, api, ops, replaced, cb_failed, rec_failed>>

\* stop_recording after the post-roll sleep: the writer or subprocess is
\* finalised and the ActiveRecording is removed.
LoopStopRecording ==
    /\ loop.pc = "end_postroll"
    /\ loop.wake = 0
    /\ active_recordings' = {x \in active_recordings : x.recording_id # loop.rec}
    /\ loop' = [loop EXCEPT !.pc = "end_db"]
    /\ log' = <<>>
    /\ UNCHANGED <<consecutive_frames, rule_states, entries, next_alert, rules,
                   active_alerts, next_recording, api, ops, startCnt, endCnt, replaced, since_end>>
    /\ UNCHANGED ghostVars
    /\ UNCHANGED <<inferVars, camVars, mediaVars>>

\* _on_alert_ended returns (alert record closed, end-actions dispatched);
\* the remaining alert-end callbacks and the remaining rules follow.
LoopEndedReturn ==
    /\ loop.pc = "end_db"
    /\ LoopStep(EndCallbacks(Model, loop.cb + 1))
    /\ UNCHANGED <<consecutive_frames, entries, rules, active_recordings,
                   next_recording, api, ops, replaced, cb_failed, rec_failed>>

\* get_frame_as_pil raises at the top of a cycle: the handler of
\* _process_pipeline takes over.
LoopFrameRaises ==
    /\ loop.pc = "sleep"
    /\ loop.wake = 0
    /\ loop' = CycleFailed
    /\ log' = <<>>
    /\ UNCHANGED <<consecutive_frames, rule_states, entries, next_alert, rules,
                   active_alerts, active_recordings, next_recording, api, ops,
                   startCnt, endCnt, replaced, since_end>>
    /\ UNCHANGED ghostVars
    /\ UNCHANGED <<inferVars, camVars, mediaVars>>

\* detect_objects raises: the handler of _process_pipeline takes over.
LoopDetectRaises ==
    /\ loop.pc = "detect"
    /\ loop' = CycleFailed
    /\ log' = <<>>
    /\ UNCHANGED <<consecutive_frames, rule_states, entries, next_alert, rules,
                   active_alerts, active_recordings, next_recording, api, ops,
                   startCnt, endCnt, replaced, since_end>>
    /\ UNCHANGED ghostVars
    /\ UNCHANGED <<inferVars, camVars, mediaVars>>

\* detect_objects returns and evaluate_rules runs with rules whose
\* _evaluate_single_rule raises on these detections (a zone or a threshold
\* the evaluation cannot read).
LoopDetectedFaulty ==
    /\ loop.pc = "detect"
    /\ \E dets \in SUBSET loop.detections, faulty \in (SUBSET RuleIds) \ {{}} :
         LoopStep(IterateRules([Model EXCEPT !.lp = [@ EXCEPT !.detections = dets,
                                                          !.di_pos = 1,
                                                          !.di_used = LiveCount,
                                                          !.faulty = faulty]]))
    /\ UNCHANGED <<consecutive_frames, entries, rules, active_recordings,
                   next_recording, api, ops, replaced, cb_failed, rec_failed>>

\* an error of a callback that is swallowed where it was called
CallbackErrorPropagates(m, i, start) == [m EXCEPT !.lp = CycleFailed]

\* `except Exception as e: logger.error(...)` around each callback: the
\* `for` goes on with the callback after number i
AfterCallbackError(m, i, start) ==
    IF start THEN StartCallbacks(m, i + 1) ELSE EndCallbacks(m, i + 1)

\* The pipeline manager's handler raises while it executes the rule's
\* start or end actions; the engine logs the error and goes on.
LoopCallbackFails ==
    /\ loop.pc \in {"trig_post", "end_db"}
    /\ LET start == loop.pc = "trig_post"
           m == AfterCallbackError(Model, loop.cb, start)
           st == m.rs[loop.rule_id]
       IN /\ LoopStep(m)
          /\ cb_failed' =
                [kind |-> IF start THEN "start" ELSE "end",
                 alert |-> loop.alert,
                 rule_id |-> loop.rule_id,
                 stands |-> IF start
                            THEN st.is_in_alert /\ st.current_alert_id = loop.alert
                            ELSE ~st.is_in_alert /\ st.current_alert_id = NULL,
                 continued |-> \/ NextLive(loop.di_pos) = 0
                               \/ /\ m.lg # <<>>
                                  /\ m.lg[1].rule_id = entries[NextLive(loop.di_pos)]]
    /\ UNCHANGED <<consecutive_frames, entries, rules, active_recordings,
                   next_recording, api, ops, replaced, rec_failed>>

\* ------------------------------------------------------- rule mutations
\* The loop holds a reference to the state object of the rule whose
\* alert-start callbacks it is running.  When the dict entry is replaced the
\* loop keeps the old object; unregister_rule clears that object in place.
LoopAfterReplace(rid) ==
    IF loop.rule_id = rid /\ loop.attached
    THEN [loop EXCEPT !.attached = FALSE] ELSE loop

LoopAfterUnregister(rid) ==
    IF loop.rule_id = rid /\ loop.attached
    THEN [loop EXCEPT !.attached = FALSE,
                      !.state_alert = IF rule_states[rid].is_in_alert THEN NULL ELSE @]
    ELSE loop

\* RuleEngine.register_rule
RegisterRule(rule) ==
    /\ rule_states' = [rule_states EXCEPT ![rule.id] =
                          RuleState(rule, NoTime, consecutive_frames)]
    /\ entries' = DictInsert(rule.id)
    /\ loop' = LoopAfterReplace(rule.id)

\* PipelineManager.add_rule: register in the engine, append to pipeline.rules
AddRule ==
    /\ api.pc = "idle"
    /\ ops < MaxOps
    /\ \E rid \in RuleIds : \E rule \in RulesFor(rid) :
         /\ Len(DictInsert(rid)) <= MaxEntries
         /\ RegisterRule(rule)
         /\ rules' = Append(rules, rule)
         /\ Forget(rid)
    /\ ops' = ops + 1
    /\ log' = <<>>
    /\ UNCHANGED <<consecutive_frames, next_alert, active_alerts,
                   active_recordings, next_recording, api, startCnt, endCnt, replaced,
                   since_end>>
    /\ UNCHANGED <<inferVars, camVars, mediaVars>>

\* PipelineManager.remove_rule: unregister_rule clears an open alert without
\* any callback and deletes the entry; the rule leaves pipeline.rules.
RemoveRule ==
    /\ api.pc = "idle"
    /\ ops < MaxOps
    /\ \E rid \in RuleIds :
         /\ rule_states' = [rule_states EXCEPT ![rid] = NoState]
         /\ entries' = DictDelete(rid)
         /\ loop' = IF InDict(rid) THEN LoopAfterUnregister(rid) ELSE loop
         /\ rules' = SelectSeq(rules, LAMBDA r : r.id # rid)
         /\ Forget(rid)
         /\ since_end' = IF rule_states[rid].is_in_alert
                          THEN [since_end EXCEPT ![rid] = 0] ELSE since_end
    /\ ops' = ops + 1
    /\ log' = <<>>
    /\ UNCHANGED <<consecutive_frames, next_alert, active_alerts,
                   active_recordings, next_recording, api, startCnt, endCnt, replaced>>
    /\ UNCHANGED <<inferVars, camVars, mediaVars>>

\* the lock-protected end of PipelineManager.update_rule
ReplaceInRules(rule) ==
    LET repl == [i \in 1..Len(rules) |-> IF rules[i].id = rule.id THEN rule ELSE rules[i]]
    IN IF \E i \in 1..Len(repl) : repl[i].id = rule.id THEN repl ELSE Append(repl, rule)

\* RuleEngine.update_rule: the state installed for the rule
UpdatedState(rule) ==
    IF InDict(rule.id)
    THEN RuleState(rule, rule_states[rule.id].last_triggered, RuleStateDefaultRequired)
    ELSE RuleState(rule, NoTime, consecutive_frames)

RECURSIVE FireAlertEnd(_, _)
\* fire_alert_end from callback i on, then the direct call of _on_alert_ended
\* that PipelineManager.update_rule makes after it; m = [ap, ec, aa].
FireAlertEnd(m, i) ==
    IF i > Len(on_alert_end_callbacks)
    THEN LET e == OnAlertEndedEnter(m.aa, m.ap.old_alert)
         IN [m EXCEPT !.ec = Bump(@, "pm", m.ap.old_alert),
                      !.aa = e.aa,
                      !.ap = [@ EXCEPT !.pc = "direct_" \o e.phase, !.cb = 0, !.rec = e.rec,
                                       !.wake = IF e.phase = "postroll"
                                                THEN RECORDING_POST_ROLL_SECONDS
                                                ELSE 0]]
    ELSE IF on_alert_end_callbacks[i] = "pm"
    THEN LET e == OnAlertEndedEnter(m.aa, m.ap.old_alert)
         IN [m EXCEPT !.ec = Bump(@, "pm", m.ap.old_alert),
                      !.aa = e.aa,
                      !.ap = [@ EXCEPT !.pc = "fire_" \o e.phase, !.cb = i, !.rec = e.rec,
                                       !.wake = IF e.phase = "postroll"
                                                THEN RECORDING_POST_ROLL_SECONDS
                                                ELSE 0]]
    ELSE FireAlertEnd([m EXCEPT !.ec = Bump(@, on_alert_end_callbacks[i], m.ap.old_alert)],
                      i + 1)

\* PipelineManager.update_rule up to its first suspension: the engine installs
\* the new state at once; with an alert open the end callbacks are then fired,
\* without one the rule list is replaced and the call returns.
UpdateRule ==
    /\ api.pc = "idle"
    /\ ops < MaxOps
    /\ \E rid \in RuleIds : \E rule \in RulesFor(rid) :
         LET old == rule_states[rid]
             fire == InDict(rid) /\ old.is_in_alert /\ old.current_alert_id # NULL
             m == FireAlertEnd([ap |-> [api EXCEPT !.rule = rule,
                                                   !.old_alert = old.current_alert_id,
                                                   !.old_rule = old.rule,
                                                   !.installed =
                                                       Snapshot(UpdatedState(rule))],
                                ec |-> endCnt, aa |-> active_alerts], 1)
         IN /\ Len(DictInsert(rid)) <= MaxEntries
            /\ rule_states' = [rule_states EXCEPT ![rid] = UpdatedState(rule)]
            /\ entries' = DictInsert(rid)
            /\ loop' = LoopAfterReplace(rid)
            /\ Forget(rid)
            /\ IF fire
               THEN /\ api' = m.ap
                    /\ endCnt' = m.ec
                    /\ active_alerts' = m.aa
                    /\ since_end' = [since_end EXCEPT ![rid] = 0]
                    /\ rules' = rules
               ELSE /\ rules' = ReplaceInRules(rule)
                    /\ UNCHANGED <<api, endCnt, active_alerts, since_end>>
    /\ ops' = ops + 1
    /\ log' = <<>>
    /\ UNCHANGED <<consecutive_frames, next_alert, active_recordings,
                   next_recording, startCnt, replaced>>
    /\ UNCHANGED <<inferVars, camVars, mediaVars>>

\* stop_recording after the post-roll sleep, inside update_rule
ApiStopRecording ==
    /\ api.pc \in {"fire_postroll", "direct_postroll"}
    /\ api.wake = 0
    /\ active_recordings' = {x \in active_recordings : x.recording_id # api.rec}
    /\ api' = [api EXCEPT !.pc = IF api.pc = "fire_postroll" THEN "fire_db" ELSE "direct_db"]
    /\ log' = <<>>
    /\ UNCHANGED <<consecutive_frames, rule_states, entries, next_alert, rules,
                   active_alerts, next_recording, loop, ops, startCnt, endCnt, replaced, since_end>>
    /\ UNCHANGED ghostVars
    /\ UNCHANGED <<inferVars, camVars, mediaVars>>

\* the manager's handler returns inside fire_alert_end: the remaining
\* callbacks run, then update_rule calls _on_alert_ended itself
ApiFireReturn ==
    /\ api.pc = "fire_db"
    /\ LET m == FireAlertEnd([ap |-> api, ec |-> endCnt, aa |-> active_alerts], api.cb + 1)
       IN /\ api' = m.ap
          /\ endCnt' = m.ec
          /\ active_alerts' = m.aa
    /\ log' = <<>>
    /\ UNCHANGED <<consecutive_frames, rule_states, entries, next_alert, rules,
                   active_recordings, next_recording, loop, ops, startCnt, replaced,
                   since_end>>
    /\ UNCHANGED ghostVars
    /\ UNCHANGED <<inferVars, camVars, mediaVars>>

\* the direct _on_alert_ended returns; under the lock the rule list is
\* replaced and update_rule returns
ApiDirectReturn ==
    /\ api.pc = "direct_db"
    /\ rules' = ReplaceInRules(api.rule)
    /\ replaced' = replaced \cup {[alert |-> api.old_alert, installed |-> api.installed]}
    /\ api' = ApiIdle
    /\ log' = <<>>
    /\ UNCHANGED <<consecutive_frames, rule_states, entries, next_alert,
                   active_alerts, active_recordings, next_recording, loop, ops,
                   startCnt, endCnt, since_end>>
    /\ UNCHANGED ghostVars
    /\ UNCHANGED <<inferVars, camVars, mediaVars>>

\* ------------------------------------------------------ the inference permit
\* A detect_objects call runs _detect_streaming or _detect_all_prompts on a
\* thread of _inference_executor.  pc of a call: "idle", "queued" (submitted,
\* no thread yet), "s_wait"/"a_wait"/"f_wait" (blocked on the semaphore at
\* the top of _detect_streaming, of _detect_all_prompts, of the
\* _detect_all_prompts that _detect_streaming falls back to), "s_session",
\* "s_lock", "s_infer", "s_post" (inside _detect_streaming), "a_lock",
\* "a_infer", "p_lock", "p_infer", "a_post" (inside
\* _detect_with_shared_vision and its per-prompt fallback), "done".
alertVars ==
    <<consecutive_frames, rule_states, entries, next_alert, rules, active_alerts,
      active_recordings, next_recording, loop, api, ops, startCnt, endCnt,
      replaced, since_end, log, streak, followed, alert_rule, cb_failed,
      rec_failed>>

OnThread(c) == calls[c].pc \notin {"idle", "queued", "done"}

\* the call is inside a `with _inference_semaphore` block and not blocked
Executing(c) ==
    calls[c].pc \in {"s_session", "s_lock", "s_infer", "s_post",
                     "a_lock", "a_infer", "p_lock", "p_infer", "a_post"}

Goto(c, pc) == calls' = [calls EXCEPT ![c].pc = pc]

\* detect_objects: run_in_executor(_inference_executor, ...)
DetectObjects ==
    /\ \E c \in Callers :
         /\ calls[c].pc = "idle"
         /\ Goto(c, "queued")
    /\ UNCHANGED <<use_streaming, sem, inference_lock>>
    /\ UNCHANGED <<alertVars, camVars, mediaVars>>

\* a free thread of the pool takes the call
ExecutorStart ==
    /\ \E c \in Callers :
         /\ calls[c].pc = "queued"
         /\ Cardinality({d \in Callers : OnThread(d)}) < ExecutorWorkers
         /\ Goto(c, IF use_streaming /\ HasCameraId(c) THEN "s_wait" ELSE "a_wait")
    /\ UNCHANGED <<use_streaming, sem, inference_lock>>
    /\ UNCHANGED <<alertVars, camVars, mediaVars>>

\* `with _inference_semaphore:` of _detect_streaming
StreamingAcquire ==
    /\ \E c \in Callers :
         /\ calls[c].pc = "s_wait"
         /\ sem > 0
         /\ sem' = sem - 1
         /\ calls' = [calls EXCEPT ![c] = [pc |-> "s_session", held |-> @.held + 1]]
    /\ UNCHANGED <<use_streaming, inference_lock>>
    /\ UNCHANGED <<alertVars, camVars, mediaVars>>

\* _get_or_create_streaming_session returns a session, or None and the call
\* falls back to _detect_all_prompts inside the block
StreamingSession ==
    /\ \E c \in Callers : \E session \in BOOLEAN :
         /\ calls[c].pc = "s_session"
         /\ Goto(c, IF session THEN "s_lock" ELSE "f_wait")
    /\ UNCHANGED <<use_streaming, sem, inference_lock>>
    /\ UNCHANGED <<alertVars, camVars, mediaVars>>

\* the same block entered without taking a permit
AllPromptsAcquireNoPermit ==
    /\ \E c \in Callers :
         /\ calls[c].pc \in {"a_wait", "f_wait"}
         /\ calls' = [calls EXCEPT ![c] = [pc |-> "a_lock", held |-> @.held]]
    /\ UNCHANGED <<use_streaming, sem, inference_lock>>
    /\ UNCHANGED <<alertVars, camVars, mediaVars>>

\* `with _inference_semaphore:` of _detect_all_prompts
AllPromptsAcquire ==
    /\ \E c \in Callers :
         /\ calls[c].pc \in {"a_wait", "f_wait"}
         /\ sem > 0
         /\ sem' = sem - 1
         /\ calls' = [calls EXCEPT ![c] = [pc |-> "a_lock", held |-> @.held + 1]]
    /\ UNCHANGED <<use_streaming, inference_lock>>
    /\ UNCHANGED <<alertVars, camVars, mediaVars>>

\* `with self._inference_lock:`
LockAcquire ==
    /\ \E c \in Callers :
         /\ calls[c].pc \in {"s_lock", "a_lock", "p_lock"}
         /\ inference_lock = "free"
         /\ inference_lock' = c
         /\ Goto(c, CASE calls[c].pc = "s_lock" -> "s_infer"
                      [] calls[c].pc = "a_lock" -> "a_infer"
                      [] OTHER -> "p_infer")
    /\ UNCHANGED <<use_streaming, sem>>
    /\ UNCHANGED <<alertVars, camVars, mediaVars>>

\* the model call of _detect_streaming ends: the lock is released; on an
\* exception the session is reset and the call falls back to
\* _detect_all_prompts, still inside the block
StreamingInfer ==
    /\ \E c \in Callers : \E raised \in BOOLEAN :
         /\ calls[c].pc = "s_infer"
         /\ inference_lock' = "free"
         /\ Goto(c, IF raised THEN "f_wait" ELSE "s_post")
    /\ UNCHANGED <<use_streaming, sem>>
    /\ UNCHANGED <<alertVars, camVars, mediaVars>>

\* the model calls of _detect_with_shared_vision end: the lock is released;
\* on an exception _detect_single_prompt runs for the prompts
SharedVisionInfer ==
    /\ \E c \in Callers : \E raised \in BOOLEAN :
         /\ calls[c].pc = "a_infer"
         /\ inference_lock' = "free"
         /\ Goto(c, IF raised THEN "p_lock" ELSE "a_post")
    /\ UNCHANGED <<use_streaming, sem>>
    /\ UNCHANGED <<alertVars, camVars, mediaVars>>

\* _detect_single_prompt ends (it swallows its exceptions)
SinglePromptInfer ==
    /\ \E c \in Callers :
         /\ calls[c].pc = "p_infer"
         /\ inference_lock' = "free"
         /\ Goto(c, "a_post")
    /\ UNCHANGED <<use_streaming, sem>>
    /\ UNCHANGED <<alertVars, camVars, mediaVars>>

\* a `with _inference_semaphore` block is left: the permit goes back; the
\* fallback returns through the block of _detect_streaming
SemaphoreRelease ==
    /\ \E c \in Callers :
         /\ calls[c].pc \in {"s_post", "a_post"}
         /\ sem' = sem + (IF calls[c].held > 0 THEN 1 ELSE 0)
         /\ calls' = [calls EXCEPT ![c] =
                         IF @.held > 1 THEN [pc |-> "s_post", held |-> @.held - 1]
                         ELSE [pc |-> "done", held |-> 0]]
    /\ UNCHANGED <<use_streaming, inference_lock>>
    /\ UNCHANGED <<alertVars, camVars, mediaVars>>

\* the future resolves: detect_objects returns the results to its caller
DetectReturn ==
    /\ \E c \in Callers :
         /\ calls[c].pc = "done"
         /\ Goto(c, "idle")
    /\ UNCHANGED <<use_streaming, sem, inference_lock>>
    /\ UNCHANGED <<alertVars, camVars, mediaVars>>

\* ------------------------------------------- cameras and frame sources
\* CameraStream: the connection to one camera and its capture thread.  The
\* thread and the caller of stop() run in parallel; a step of the thread is
\* what it does between two reads or writes of fields that stop() shares.
JoinTimeoutSeconds == 5
max_consecutive_failures == 10
initial_reconnect_delay == 1
max_reconnect_delay == 30
reconnect_backoff_factor == 2

Min(a, b) == IF a < b THEN a ELSE b

\* reconnect_backoff_factor ** e is a float power: for 2.0 it raises
\* OverflowError from this exponent on (the largest double is below 2^1024)
FloatMaxExponent == 1024

\* the least exponent at which the power reaches max_reconnect_delay
SaturationExponent ==
    CHOOSE e \in 0..30 :
        /\ initial_reconnect_delay * reconnect_backoff_factor ^ e >= max_reconnect_delay
        /\ \A d \in 0..(e - 1) :
              initial_reconnect_delay * reconnect_backoff_factor ^ d < max_reconnect_delay

\* the delay _reconnect sleeps at attempt number n (n - 1 < FloatMaxExponent)
Delay(n) ==
    IF n - 1 >= SaturationExponent THEN max_reconnect_delay
    ELSE Min(initial_reconnect_delay * reconnect_backoff_factor ^ (n - 1),
             max_reconnect_delay)

\* the registry test that never finds the camera
PresentNever(cid) == FALSE

\* `camera.id in self._pipelines`
Present(cid) == pipelines[cid].stream # NULL

\* a start() that reports success and launches the thread whatever happened
StartAlwaysLaunches(st, opened) ==
    [ok |-> TRUE,
     stream |-> [st EXCEPT !.capture = IF opened THEN "open" ELSE "closed",
                           !.running = TRUE, !.status = "connected",
                           !.thread = "top"]]

\* CameraStream.start(): the result and the object after the call
Start(st, opened) ==
    IF st.running THEN [ok |-> TRUE, stream |-> st]
    ELSE IF opened
    THEN [ok |-> TRUE,
          stream |-> [st EXCEPT !.capture = "open", !.failures = 0, !.attempts = 0,
                                !.running = TRUE, !.status = "connected",
                                !.thread = "top"]]
    ELSE [ok |-> FALSE, stream |-> [st EXCEPT !.capture = "closed", !.status = "error"]]

FreeStreams == {s \in StreamIds : ~streams[s].made}

\* add_camera, under the manager's lock: nothing for a camera that is
\* present; else a new CameraStream is started and, on success, registered
\* with a new per-camera task.
AddCamera ==
    /\ mgr.pc = "idle"
    /\ IF Present(CameraId)
       THEN /\ UNCHANGED <<pipelines, streams, tasks>>
            /\ last_add' = [result |-> "duplicate",
                            untouched |-> /\ pipelines' = pipelines
                                          /\ streams' = streams
                                          /\ tasks' = tasks,
                            clean |-> TRUE]
       ELSE /\ FreeStreams # {}
            /\ LET s == CHOOSE x \in FreeStreams : \A y \in FreeStreams : x <= y
                   r == Start([NewStream EXCEPT !.made = TRUE], reachable)
               IN IF r.ok
                  THEN /\ streams' = [streams EXCEPT ![s] = r.stream]
                       /\ pipelines' = [pipelines EXCEPT ![CameraId] =
                                           [stream |-> s, is_running |-> TRUE]]
                       /\ tasks' = [tasks EXCEPT ![s] = "run"]
                       /\ last_add' = [result |-> "created", untouched |-> FALSE,
                                       clean |-> reachable]
                  ELSE /\ UNCHANGED <<pipelines, streams, tasks>>
                       /\ last_add' = [result |-> "failed",
                                       untouched |-> /\ pipelines' = pipelines
                                                     /\ tasks' = tasks,
                                       clean |-> /\ r.stream.status = "error"
                                                 /\ ~r.stream.running
                                                 /\ r.stream.thread = "none"
                                                 /\ r.stream.capture # "open"]
    /\ UNCHANGED <<manager_running, mgr, reachable, removed>>
    /\ UNCHANGED <<alertVars, inferVars, mediaVars>>

\* _stop_pipeline up to `await pipeline.processing_task`
StopPipelineBegin(kind) ==
    /\ pipelines' = [pipelines EXCEPT ![CameraId].is_running = FALSE]
    /\ mgr' = [pc |-> "cancel", kind |-> kind, stream |-> pipelines[CameraId].stream]

\* remove_camera takes the lock and stops the pipeline of a present camera.
RemoveCamera ==
    /\ mgr.pc = "idle"
    /\ Present(CameraId)
    /\ StopPipelineBegin("remove")
    /\ UNCHANGED <<manager_running, streams, tasks, reachable, last_add, removed>>
    /\ UNCHANGED <<alertVars, inferVars, mediaVars>>

\* PipelineManager.stop(): the flag, then every registered pipeline is
\* stopped under the lock; the registry keeps its entries.
ManagerStop ==
    /\ mgr.pc = "idle"
    /\ manager_running
    /\ manager_running' = FALSE
    /\ IF Present(CameraId) THEN StopPipelineBegin("stop")
       ELSE UNCHANGED <<pipelines, mgr>>
    /\ UNCHANGED <<streams, tasks, reachable, last_add, removed>>
    /\ UNCHANGED <<alertVars, inferVars, mediaVars>>

\* the cancelled task takes CancelledError at its await and leaves the loop
\* (`except asyncio.CancelledError: break`); the awaiting call goes on
TaskCancelled ==
    /\ mgr.pc = "cancel"
    /\ tasks' = [tasks EXCEPT ![mgr.stream] = "ended"]
    /\ mgr' = [mgr EXCEPT !.pc = "stop"]
    /\ UNCHANGED <<manager_running, pipelines, streams, reachable, last_add, removed>>
    /\ UNCHANGED <<alertVars, inferVars, mediaVars>>

\* `while pipeline.is_running and self._running` is false at the top of a
\* cycle: the task ends without a cancellation
TaskExit ==
    /\ \E s \in StreamIds :
         /\ tasks[s] = "run"
         /\ ~manager_running \/ (pipelines[CameraId].stream = s
                                 /\ ~pipelines[CameraId].is_running)
         /\ tasks' = [tasks EXCEPT ![s] = "ended"]
    /\ UNCHANGED <<manager_running, pipelines, streams, mgr, reachable, last_add,
                   removed>>
    /\ UNCHANGED <<alertVars, inferVars, mediaVars>>

\* CameraStream.stop() up to the join of the capture thread
StopBegin ==
    /\ mgr.pc = "stop"
    /\ streams' = [streams EXCEPT ![mgr.stream] =
                      [@ EXCEPT !.running = FALSE, !.status = "disconnected"]]
    /\ mgr' = [mgr EXCEPT !.pc = "join"]
    /\ UNCHANGED <<manager_running, pipelines, tasks, reachable, last_add, removed>>
    /\ UNCHANGED <<alertVars, inferVars, mediaVars>>

\* the thread is in a call that can last longer than the join waits: the
\* connect or the read of the capture, or a backoff sleep above the timeout
Blocking(st) ==
    \/ st.thread \in {"connecting", "read"}
    \/ st.thread = "backoff" /\ st.delay > JoinTimeoutSeconds

\* `self._read_thread.join(timeout=5.0)` returns, because the thread has
\* exited or because the timeout expired; stop() releases the capture and
\* clears the buffer and the counters; remove_camera then drops the entry.
StopJoined ==
    /\ mgr.pc = "join"
    /\ LET st == streams[mgr.stream]
       IN /\ st.thread \in {"none", "exited"} \/ Blocking(st)
          /\ streams' = [streams EXCEPT ![mgr.stream] =
                            IF mgr.kind = "remove" /\ st.thread \in {"none", "exited"}
                            THEN Dropped
                            ELSE [st EXCEPT !.capture = "none", !.buffer = 0,
                                            !.failures = 0, !.attempts = 0,
                                            !.stopped = TRUE]]
    /\ IF mgr.kind = "remove"
       THEN /\ pipelines' = [pipelines EXCEPT ![CameraId] = NoPipeline]
            /\ removed' = removed \cup {mgr.stream}
       ELSE UNCHANGED <<pipelines, removed>>
    /\ mgr' = MgrIdle
    /\ UNCHANGED <<manager_running, tasks, reachable, last_add>>
    /\ UNCHANGED <<alertVars, inferVars, mediaVars>>

\* a step of the capture thread of stream s that ends in the object st
ThreadStep(s, st) ==
    /\ streams' = [streams EXCEPT ![s] = IF s \in removed /\ st.thread = "exited"
                                         THEN Dropped ELSE st]
    /\ UNCHANGED <<manager_running, pipelines, tasks, mgr, reachable, last_add, removed>>
    /\ UNCHANGED <<alertVars, inferVars, mediaVars>>

\* `while self._running:` and the test of the capture
ReadLoopTop(s) ==
    /\ streams[s].thread = "top"
    /\ LET st == [streams[s] EXCEPT !.fresh = FALSE]
       IN ThreadStep(s, IF ~st.running THEN [st EXCEPT !.thread = "exited", !.via = "none"]
                        ELSE IF st.capture # "open"
                        THEN [st EXCEPT !.thread = "reconnect", !.via = "top"]
                        ELSE [st EXCEPT !.thread = "read"])

\* _reconnect up to time.sleep(delay), the attempts counted up to cap: the
\* status, the counter, then the delay, whose power raises OverflowError
\* out of _reconnect and out of the thread's function when it is too large
ReconnectSleep(st, cap) ==
    LET n == Min(st.attempts + 1, cap)
    IN IF n - 1 >= FloatMaxExponent
       THEN [st EXCEPT !.status = "reconnecting", !.attempts = n, !.thread = "crashed"]
       ELSE [st EXCEPT !.status = "reconnecting", !.attempts = n, !.delay = Delay(n),
                       !.thread = "backoff"]

\* _reconnect begins, in a model that stops counting at MaxAttempts
ReconnectBegin(s) ==
    /\ streams[s].thread = "reconnect"
    /\ ThreadStep(s, ReconnectSleep(streams[s], MaxAttempts))

\* _reconnect begins, every attempt counted
ReconnectBeginCounted(s) ==
    /\ streams[s].thread = "reconnect"
    /\ ThreadStep(s, ReconnectSleep(streams[s], FloatMaxExponent + 1))

\* the sleep is over: `if not self._running: return False`
ReconnectWake(s) ==
    /\ streams[s].thread = "backoff"
    /\ ThreadStep(s, IF ~streams[s].running
                     THEN [streams[s] EXCEPT !.thread = "top", !.delay = 0]
                     ELSE [streams[s] EXCEPT !.thread = "open", !.delay = 0])

\* _open_capture releases the old capture and starts to connect
OpenCaptureRelease(s) ==
    /\ streams[s].thread = "open"
    /\ ThreadStep(s, [streams[s] EXCEPT !.capture = "none", !.thread = "connecting"])

\* _open_capture returned False: status Reconnecting, `continue`
ReconnectFailed(st) == [st EXCEPT !.capture = "closed", !.status = "reconnecting",
                                  !.thread = "top"]

\* cv2.VideoCapture(url) returns and is stored; _reconnect ends
OpenCaptureConnect(s) ==
    /\ streams[s].thread = "connecting"
    /\ ThreadStep(s, IF reachable
                     THEN [streams[s] EXCEPT !.capture = "open", !.failures = 0,
                                             !.attempts = 0, !.status = "connected",
                                             !.thread = IF streams[s].via = "top"
                                                        THEN "read" ELSE "top"]
                     ELSE ReconnectFailed(streams[s]))

\* self._capture.read() returns: a frame is stored in the ring buffer, or
\* the failure is counted and, at the limit, a reconnect follows
ReadFrame(s) ==
    /\ streams[s].thread = "read"
    /\ LET st == streams[s]
       IN ThreadStep(s,
            IF st.capture = "open" /\ reachable
            THEN [st EXCEPT !.failures = 0, !.status = "connected",
                            !.buffer = Min(@ + 1, MaxFrames), !.fresh = TRUE,
                            !.thread = "top"]
            ELSE IF st.failures + 1 >= max_consecutive_failures
            THEN [st EXCEPT !.failures = 0, !.thread = "reconnect", !.via = "fail"]
            ELSE [st EXCEPT !.failures = @ + 1, !.thread = "top"])

CaptureThread(s) ==
    \/ ReadLoopTop(s)
    \/ ReconnectBegin(s)
    \/ ReconnectWake(s)
    \/ OpenCaptureRelease(s)
    \/ OpenCaptureConnect(s)
    \/ ReadFrame(s)

\* the capture thread with every reconnect attempt counted
CaptureThreadCounted(s) ==
    \/ ReadLoopTop(s)
    \/ ReconnectBeginCounted(s)
    \/ ReconnectWake(s)
    \/ OpenCaptureRelease(s)
    \/ OpenCaptureConnect(s)
    \/ ReadFrame(s)

\* the camera goes off the network, or comes back
EnvChange ==
    /\ reachable' = ~reachable
    /\ UNCHANGED <<manager_running, pipelines, streams, tasks, mgr, last_add, removed>>
    /\ UNCHANGED <<alertVars, inferVars, mediaVars>>

\* --------------------------------------------------------- specifications
Next ==
    \/ Tick
    \/ LoopWake
    \/ LoopDetected
    \/ LoopStartRecording
    \/ LoopTriggeredReturn
    \/ LoopStopRecording
    \/ LoopEndedReturn
    \/ AddRule
    \/ RemoveRule
    \/ UpdateRule
    \/ ApiStopRecording
    \/ ApiFireReturn
    \/ ApiDirectReturn

\* rule mutations racing with the per-camera loop
Spec == Init /\ [][Next]_vars

\* Two rules on the camera, the debounce setting instant or 3, no mutation.
InitEval ==
    /\ consecutive_frames \in ConsecutiveFramesChoices
    /\ \E r1 \in RulesFor("r1"), r2 \in RulesFor("r2") : AlertsStarted(<<r1, r2>>)
    /\ use_streaming = TRUE
    /\ InferenceIdle
    /\ CamerasIdle
    /\ MediaIdle

NextEval ==
    \/ Tick
    \/ LoopWake
    \/ LoopDetected
    \/ LoopStartRecording
    \/ LoopTriggeredReturn
    \/ LoopStopRecording
    \/ LoopEndedReturn
    \/ LoopFrameRaises
    \/ LoopDetectRaises
    \/ LoopDetectedFaulty
    \/ LoopCallbackFails

SpecEval == InitEval /\ [][NextEval]_vars

\* The inference service under calls of two camera loops and a route.
InitInfer ==
    /\ consecutive_frames = DETECTION_CONSECUTIVE_FRAMES
    /\ AlertsStarted(<<>>)
    /\ use_streaming \in BOOLEAN
    /\ InferenceIdle
    /\ CamerasIdle
    /\ MediaIdle

NextInfer ==
    \/ DetectObjects
    \/ ExecutorStart
    \/ StreamingAcquire
    \/ StreamingSession
    \/ AllPromptsAcquire
    \/ LockAcquire
    \/ StreamingInfer
    \/ SharedVisionInfer
    \/ SinglePromptInfer
    \/ SemaphoreRelease
    \/ DetectReturn

SpecInfer == InitInfer /\ [][NextInfer]_vars

\* The same with threads that are scheduled: a step of the service that
\* stays possible is eventually taken.
SpecInferFair ==
    /\ InitInfer
    /\ [][NextInfer]_vars
    /\ WF_vars(ExecutorStart)
    /\ WF_vars(StreamingAcquire)
    /\ WF_vars(StreamingSession)
    /\ WF_vars(AllPromptsAcquire)
    /\ WF_vars(LockAcquire)
    /\ WF_vars(StreamingInfer)
    /\ WF_vars(SharedVisionInfer)
    /\ WF_vars(SinglePromptInfer)
    /\ WF_vars(SemaphoreRelease)
    /\ WF_vars(DetectReturn)

\* The pipeline manager with one camera id that is added and removed while
\* the camera goes off and on the network.
InitCam ==
    /\ consecutive_frames = DETECTION_CONSECUTIVE_FRAMES
    /\ AlertsStarted(<<>>)
    /\ use_streaming = TRUE
    /\ InferenceIdle
    /\ CamerasIdle
    /\ MediaIdle

NextCam ==
    \/ AddCamera
    \/ RemoveCamera
    \/ ManagerStop
    \/ TaskCancelled
    \/ TaskExit
    \/ StopBegin
    \/ StopJoined
    \/ EnvChange
    \/ \E s \in StreamIds : CaptureThread(s)

SpecCam == InitCam /\ [][NextCam]_vars

\* every capture thread that can take a step takes one in the end
SpecCamFair ==
    /\ InitCam
    /\ [][NextCam]_vars
    /\ \A s \in StreamIds : WF_vars(CaptureThread(s))

\* One camera that was added and stays in the registry while it goes off
\* and on the network, for as long as it takes.
InitReconnect ==
    /\ consecutive_frames = DETECTION_CONSECUTIVE_FRAMES
    /\ AlertsStarted(<<>>)
    /\ use_streaming = TRUE
    /\ InferenceIdle
    /\ manager_running = TRUE
    /\ \E s \in StreamIds :
         /\ \A t \in StreamIds : s <= t
         /\ pipelines = [c \in {CameraId} |-> [stream |-> s, is_running |-> TRUE]]
         /\ streams = [t \in StreamIds |->
                          IF t = s THEN Start([NewStream EXCEPT !.made = TRUE], TRUE).stream
                          ELSE NewStream]
         /\ tasks = [t \in StreamIds |-> IF t = s THEN "run" ELSE "none"]
    /\ mgr = MgrIdle
    /\ reachable = TRUE
    /\ last_add = [result |-> "created", untouched |-> FALSE, clean |-> TRUE]
    /\ removed = {}
    /\ MediaIdle

NextReconnect ==
    \/ EnvChange
    \/ \E s \in StreamIds : CaptureThreadCounted(s)

SpecReconnect == InitReconnect /\ [][NextReconnect]_vars

SpecReconnectFair ==
    /\ InitReconnect
    /\ [][NextReconnect]_vars
    /\ \A s \in StreamIds : WF_vars(CaptureThreadCounted(s))

\* ------------------------------------------------------------ properties
LogSet == {log[i] : i \in 1..Len(log)}

\* the entry's rule was idle and inside its cooldown window when reached
Cooling(e) ==
    /\ ~e.before.is_in_alert
    /\ e.before.last_triggered # NoTime
    /\ e.before.last_triggered < e.before.rule.cooldown_seconds

\* C1: every delivery of 'alert end' for an alert id to a consumer is
\* preceded by exactly one delivery of 'alert start' for that id to the
\* same consumer, under every interleaving of the loop with update_rule.
C1_EndPrecededByOneStart ==
    \A c \in Consumers : \A a \in AlertIds :
        endCnt[c][a] > 0 => startCnt[c][a] = 1

\* C2: once update_rule has replaced a rule that had the open alert A, every
\* alert-end handler has been invoked exactly once with A, and the state the
\* call installed is idle with a consecutive count of 0.
C2_ReplacementEndsAlertOnce ==
    \A x \in replaced :
        /\ \A c \in Consumers : endCnt[c][x.alert] = 1
        /\ ~x.installed.is_in_alert
        /\ x.installed.current_alert_id = NULL
        /\ x.installed.consecutive_detections = 0

\* C3: while the alert-end callbacks that update_rule fires for the old
\* alert have not finished, the fresh idle state is not installed yet: the
\* rule id still shows the old alert, so no cycle sees the new state and no
\* new alert of the rule id starts.
C3_EndCallbacksBeforeFreshState ==
    api.pc # "idle" =>
        /\ rule_states[api.rule.id].is_in_alert
        /\ rule_states[api.rule.id].current_alert_id = api.old_alert

\* C4: an idle rule outside its cooldown window opens an alert (in-alert set,
\* fresh alert id, alert-start callbacks invoked) on exactly the evaluation at
\* which the run of triggered evaluations reaches required-consecutive, never
\* earlier; a non-triggered evaluation resets the counter to 0; with N = 3
\* the outcomes [T,T,F,T,T,T] open exactly one alert, on the 6th evaluation.
C4_Debounce ==
    /\ \A e \in LogSet : e.evaluated =>
         /\ e.started # NULL => /\ streak[e.rule_id] = e.before.required_consecutive
                                /\ ~e.before.is_in_alert
                                /\ e.after.is_in_alert
                                /\ e.after.current_alert_id = e.started
                                /\ e.started = next_alert
                                /\ alert_rule[e.started] = e.rule_id
                                /\ startCnt["pm"][e.started] = 1
         /\ (/\ ~e.before.is_in_alert
             /\ e.triggered
             /\ streak[e.rule_id] >= e.before.required_consecutive) => e.started # NULL
         /\ ~e.triggered => e.after.consecutive_detections = 0
    /\ (consecutive_frames = 3 /\ followed.on) =>
         LET opened == {a \in AlertIds : alert_rule[a] = ExampleRule}
         IN IF followed.n < Len(Example)
            THEN opened = {} /\ ~rule_states[ExampleRule].is_in_alert
            ELSE Cardinality(opened) = 1 /\ rule_states[ExampleRule].is_in_alert

C4_Witness ==
    /\ consecutive_frames = 3
    /\ followed = [n |-> Len(Example), on |-> TRUE]
    /\ \E e \in LogSet : e.rule_id = ExampleRule /\ e.started # NULL

\* C5: the cooldown gate never skips a rule that is in alert: whenever a
\* cycle reaches an enabled rule with an open alert it evaluates it, also
\* inside the cooldown window, and a non-triggered evaluation closes the alert.
C5_OpenAlertNotGated ==
    \A e \in LogSet :
        (e.before.is_in_alert /\ e.before.rule.enabled) =>
            /\ e.evaluated
            /\ ~e.triggered => /\ ~e.after.is_in_alert
                               /\ e.after.current_alert_id = NULL
                               /\ e.ended = e.before.current_alert_id
                               /\ endCnt["pm"][e.ended] >= 1

C5_Witness ==
    \E e \in LogSet :
        /\ e.before.is_in_alert
        /\ e.before.last_triggered < e.before.rule.cooldown_seconds
        /\ e.evaluated /\ ~e.triggered
        /\ e.ended # NULL

\* C6: a cycle that reaches an enabled idle rule inside its cooldown window
\* does not evaluate it, invokes no alert-start or alert-end callback for it
\* and leaves its runtime state unchanged.
C6_GateSkipsEntirely ==
    \A e \in LogSet :
        (e.before.rule.enabled /\ Cooling(e)) =>
            /\ ~e.evaluated
            /\ e.started = NULL /\ e.ended = NULL
            /\ e.after = e.before
            /\ rule_states[e.rule_id] = e.before

C6_Witness ==
    \E e \in LogSet : e.before.rule.enabled /\ Cooling(e) /\ ~e.evaluated

\* C7: no alert of a rule is opened earlier than cooldown_seconds after the
\* end of the rule's previous alert.
C7_CooldownFromAlertEnd ==
    \A e \in LogSet :
        e.started # NULL =>
            \/ e.since_end = NoTime
            \/ e.since_end >= e.before.rule.cooldown_seconds

\* an alert start was emitted for a / an alert end was emitted for a
Started(a) == startCnt["pm"][a] > 0
Ended(a) == endCnt["pm"][a] > 0

\* C8: for every registered rule in-alert holds iff the alert id is non-null,
\* and no alert start is emitted for a rule between the start and the end of
\* an earlier alert of that rule, under add_rule, update_rule and remove_rule.
C8_OneOpenAlertPerRule ==
    /\ \A r \in RuleIds :
         InDict(r) => (rule_states[r].is_in_alert <=> rule_states[r].current_alert_id # NULL)
    /\ \A a, b \in AlertIds :
         (a < b /\ alert_rule[a] # "none" /\ alert_rule[a] = alert_rule[b] /\ Started(b))
            => Ended(a)

\* C9: the recorder's active set holds at most one ActiveRecording per alert
\* id, and the open-alert map relates an alert id only to a recording of that
\* alert, so to at most one.
C9_OneRecordingPerAlert ==
    /\ \A x, y \in active_recordings : x.alert_id = y.alert_id => x = y
    /\ \A a \in AlertIds : \A x \in active_recordings :
         x.recording_id = active_alerts[a] => x.alert_id = a

C9_Witness ==
    /\ Cardinality(active_recordings) >= 2
    /\ \E x \in active_recordings : active_alerts[x.alert_id] = x.recording_id

\* C10: at most one inference call executes at any time, whatever the number
\* of callers ready and whichever mode, streaming or single-frame, they use.
C10_OneInferenceAtATime ==
    Cardinality({c \in Callers : Executing(c)}) <= 1

C10_Witness ==
    \E c, d \in Callers :
        /\ calls[c].pc \in {"s_infer", "a_infer"}
        /\ calls[d].pc \in {"s_wait", "a_wait"}

\* C11: the inference permit is never left stuck: every call that holds a
\* permit eventually gives it back and returns, also after a failed session
\* creation or a raising streaming inference (so that the permit is there
\* for the calls that wait for it).
C11_PermitNeverStuck ==
    \A c \in Callers : (calls[c].held > 0) ~> (calls[c].pc = "done" /\ sem > 0)

SlotOf(rid) == CHOOSE i \in 1..Len(entries) : entries[i] = rid

\* C16: when the evaluation of one rule raises, every enabled rule of the
\* camera that comes after it in the cycle is still reached in that cycle.
C16_RemainingRulesEvaluated ==
    \A e \in LogSet :
        e.raised =>
            \A r \in RuleIds :
                (InDict(r) /\ SlotOf(r) > SlotOf(e.rule_id) /\ rule_states[r].rule.enabled)
                    => \E f \in LogSet : f.rule_id = r

\* C17: when the first alert-start (alert-end) callback of a transition
\* fails, the callback registered after it is still invoked for that alert,
\* the transition stands, and the cycle goes on with the next rule.
C17_CallbackIsolation ==
    cb_failed.kind # "none" =>
        /\ cb_failed.stands
        /\ cb_failed.continued
        /\ cb_failed.kind = "start" => startCnt["ws"][cb_failed.alert] >= 1
        /\ cb_failed.kind = "end" => endCnt["ws"][cb_failed.alert] >= 1

C17_Witness ==
    /\ cb_failed.kind = "end"
    /\ endCnt["ws"][cb_failed.alert] = 1
    /\ log # <<>>
    /\ log[1].rule_id # cb_failed.rule_id
    /\ log[1].evaluated

\* C12: when remove_camera has returned, the per-camera task of the removed
\* camera has finished, its capture thread has exited, its connection is
\* released and its PipelineState is out of the registry.
C12_RemoveReleasesAll ==
    \A s \in removed :
        /\ tasks[s] = "ended"
        /\ streams[s].thread \in {"none", "exited"}
        /\ streams[s].capture # "open"
        /\ pipelines[CameraId].stream # s

StreamStarted(s) == streams[s].made /\ streams[s].running

\* C13: add_camera for a camera that is in the registry creates nothing and
\* touches nothing, and at any time there is at most one started
\* CameraStream and one running per-camera task, the ones of the registry.
C13_OnePipelinePerCamera ==
    /\ last_add.result = "duplicate" => last_add.untouched
    /\ \A s, t \in StreamIds : (StreamStarted(s) /\ StreamStarted(t)) => s = t
    /\ \A s, t \in StreamIds : (tasks[s] = "run" /\ tasks[t] = "run") => s = t
    /\ \A s \in StreamIds :
         (StreamStarted(s) \/ tasks[s] = "run") => pipelines[CameraId].stream = s

C13_Witness ==
    /\ last_add.result = "duplicate"
    /\ removed # {}
    /\ \E s \in StreamIds \ removed : StreamStarted(s) /\ tasks[s] = "run"

\* C14: when the connection cannot be opened, start() leaves the source in
\* status Error, not running and without a capture thread, and add_camera
\* registers no PipelineState and launches no task.
C14_FailedStartLeavesNothing ==
    /\ last_add.result = "failed" => last_add.clean /\ last_add.untouched
    /\ last_add.result = "created" => last_add.clean
    /\ \A s \in StreamIds : streams[s].made => streams[s].status # "error"

C14_Witness ==
    /\ last_add.result = "failed"
    /\ ~Present(CameraId)
    /\ removed # {}

\* C18: once stop() has returned, the status of the source is Disconnected.
C18_StoppedIsDisconnected ==
    \A s \in StreamIds : streams[s].stopped => streams[s].status = "disconnected"

\* C19: once stop() has returned, the ring buffer of the source is empty.
C19_StoppedBufferEmpty ==
    \A s \in StreamIds : streams[s].stopped => streams[s].buffer = 0

\* C20: the capture thread of a running source never exits, and when the
\* camera stays reachable and the source stays running, the source is again
\* and again Connected with a frame just captured.
C20_SurvivesTransientFailures ==
    /\ [](\A s \in StreamIds :
            streams[s].thread \in {"exited", "crashed"} => ~streams[s].running)
    /\ \A s \in StreamIds :
         <>[](reachable /\ streams[s].running)
             => []<>(streams[s].status = "connected" /\ streams[s].fresh)

\* C21: every reconnect attempt waits before it reopens: the k-th attempt
\* since the last successful connection waits 1, 2, 4, 8, 16, 30, 30, ...
\* seconds; after a failed attempt the status is Reconnecting and the attempt
\* counter is kept, after a successful one the source is Connected with the
\* attempt counter at 0.
C21_ReconnectBackoff ==
    \A s \in StreamIds :
        LET st == streams[s]
        IN /\ st.thread # "crashed"
           /\ st.thread = "backoff" =>
                /\ st.status = "reconnecting"
                /\ st.attempts >= 1
                /\ st.delay = IF st.attempts <= 5 THEN <<1, 2, 4, 8, 16>>[st.attempts]
                              ELSE 30
           /\ st.status = "reconnecting" => st.attempts >= 1
           /\ st.status = "connected" => st.attempts = 0


\* ------------------------------------------------------------ ring buffer
\* CameraStream.fps of the streams followed
FpsChoices == {1, 2}

\* deque(maxlen).append on the right: a full deque gives up its left end
DequeAppendUnbounded(buf, f, maxlen) == Append(buf, f)

DequeAppend(buf, f, maxlen) ==
    IF maxlen = 0 THEN <<>>
    ELSE IF Len(buf) >= maxlen THEN Append(Tail(buf), f)
    ELSE Append(buf, f)

\* lst[start:] of a Python list: a negative start counts from the right end,
\* and -0 is 0
SliceFrom(lst, start) ==
    LET from == IF start < 0 THEN (IF Len(lst) + start < 0 THEN 0 ELSE Len(lst) + start)
                ELSE Min(start, Len(lst))
    IN SubSeq(lst, from + 1, Len(lst))

\* int(seconds * self.fps) for seconds given in half seconds
FramesNeeded(halves, fps) == (halves * fps) \div 2

get_pre_roll_frames(buf, halves, fps) ==
    LET frames_needed == FramesNeeded(halves, fps)
        available_frames == buf
    IN IF Len(available_frames) <= frames_needed THEN available_frames
       ELSE SliceFrom(available_frames, -frames_needed)

\* _write_frame without its test of the elapsed time
write_frame_uncapped(r, f) ==
    IF ~r.registered THEN r.written
    ELSE IF r.mode = "audio" THEN r.written
    ELSE Append(r.written, f)

\* RecordingService._write_frame, called on the capture thread
write_frame(r, f) ==
    IF ~r.registered THEN r.written
    ELSE IF r.mode = "audio" THEN r.written
    ELSE IF r.expired THEN r.written
    ELSE Append(r.written, f)

\* `for callback in self._subscribers`, with the frames a recording is due
Notify(r, f) ==
    [r EXCEPT !.written = IF r.subscribed THEN write_frame(r, f) ELSE @,
              !.due = IF r.mode = "silent" /\ r.pc \in {"snapshot", "built", "active"}
                         /\ ~r.released /\ ~r.expired
                      THEN Append(@, f) ELSE @]

\* the capture thread stores one frame read from the camera and hands it
\* to the subscribers
AppendFrame ==
    /\ frame_count < MaxCaptured
    /\ frame_count' = frame_count + 1
    /\ frame_buffer' = DequeAppend(frame_buffer, frame_count + 1, BufferCapacity)
    /\ since_clear' = since_clear + 1
    /\ recorder' = Notify(recorder, frame_count + 1)
    /\ UNCHANGED <<pre_roll, spatial, stop_calls>>
    /\ UNCHANGED <<alertVars, inferVars, camVars>>

\* CameraStream.stop() empties the buffer
ClearFrames ==
    /\ frame_buffer' = <<>>
    /\ since_clear' = 0
    /\ UNCHANGED <<frame_count, pre_roll, spatial, recorder, stop_calls>>
    /\ UNCHANGED <<alertVars, inferVars, camVars>>

PreRollCall ==
    /\ \E halves \in 0..MaxHalfSeconds, fps \in FpsChoices :
         pre_roll' = [called |-> TRUE, halves |-> halves, fps |-> fps,
                      of |-> frame_buffer,
                      frames |-> get_pre_roll_frames(frame_buffer, halves, fps)]
    /\ UNCHANGED <<frame_buffer, frame_count, since_clear, spatial, recorder, stop_calls>>
    /\ UNCHANGED <<alertVars, inferVars, camVars>>

InitBuffer ==
    /\ consecutive_frames = DETECTION_CONSECUTIVE_FRAMES
    /\ AlertsStarted(<<>>)
    /\ use_streaming = TRUE
    /\ InferenceIdle
    /\ CamerasIdle
    /\ MediaIdle

NextBuffer ==
    \/ AppendFrame
    \/ ClearFrames
    \/ PreRollCall

SpecBuffer == InitBuffer /\ [][NextBuffer]_vars

\* C22: the ring buffer holds min(n, C) frames, n being the frames captured
\* since it was last cleared, and they are the last min(n, C) frames
\* captured, oldest first.
C22_RingBufferBound ==
    LET held == Min(since_clear, BufferCapacity)
    IN /\ Len(frame_buffer) = held
       /\ \A i \in 1..held : frame_buffer[i] = frame_count - held + i

C22_Witness ==
    /\ since_clear > BufferCapacity
    /\ Len(frame_buffer) = BufferCapacity
    /\ frame_buffer[1] = frame_count - BufferCapacity + 1

\* C23: get_pre_roll_frames(seconds) returns the most recent
\* min(len(buffer), floor(seconds * fps)) frames of the buffer, oldest
\* first, and never more than seconds * fps frames.
C23_PreRollWindow ==
    pre_roll.called =>
        LET n == Min(Len(pre_roll.of), FramesNeeded(pre_roll.halves, pre_roll.fps))
        IN /\ pre_roll.frames = SubSeq(pre_roll.of, Len(pre_roll.of) - n + 1, Len(pre_roll.of))
           /\ 2 * Len(pre_roll.frames) <= pre_roll.halves * pre_roll.fps


\* C27: when start_recording fails in the alert-start reaction, the rule
\* state is left as it is (in alert, with its alert id), the open-alert map
\* gets no entry for the alert, the handler goes on to dispatch the
\* start-actions and the loop goes on; the end of that alert is processed
\* without a stop_recording call (no post-roll wait, no recording looked up).
C27_StartFailureLeavesAlert ==
    /\ [](\A a \in rec_failed \cap AlertIds :
            /\ active_alerts[a] = NULL
            /\ loop.alert = a =>
                 /\ loop.pc # "end_postroll"
                 /\ loop.pc = "end_db" => loop.rec = NULL
            /\ api.old_alert = a => api.pc \notin {"fire_postroll", "direct_postroll"})
    /\ [][(loop.pc = "trig_db" /\ loop.alert \in rec_failed' \ rec_failed) =>
            /\ rule_states' = rule_states
            /\ next_alert' = next_alert
            /\ startCnt' = startCnt
            /\ loop'.pc = "trig_post"
            /\ ~loop'.failed]_vars

C27_Witness ==
    /\ loop.alert \in rec_failed \cap AlertIds
    /\ loop.pc = "end_db"
    /\ endCnt["pm"][loop.alert] = 1
    /\ startCnt["ws"][loop.alert] = 1
    /\ ~rule_states[loop.rule_id].is_in_alert


\* ------------------------------------------------------ spatial relations
\* the tolerance of "over" and the reach of "near", in pixels
OverTolerance == 50
NearDistance == 100

Relationships == {"over", "on", "inside", "near"}

\* box edges and mask pixels of the detections exercised
PrimaryEdgesX == {100, 140}
EdgesX == {0, 100, 120, 140, 300}
EdgesY == {0, 44, 45, 50, 90, 95, 200}
MaskPixels == {1}

\* a Detection as _detect_* builds it: the center is the integer midpoint
\* of the box
Detection(x1, y1, x2, y2, mask) ==
    [bbox |-> <<x1, y1, x2, y2>>, center |-> <<(x1 + x2) \div 2, (y1 + y2) \div 2>>,
     mask |-> mask]

Detections(xs) ==
    {Detection(x1, y1, x2, y2, mask) :
        x1 \in xs, y1 \in EdgesY, x2 \in xs, y2 \in EdgesY,
        mask \in SUBSET MaskPixels}

Boxes(xs) == {d \in Detections(xs) : d.bbox[1] < d.bbox[3] /\ d.bbox[2] < d.bbox[4]}

\* the detections a rule evaluation is fed with
SampleBoxes ==
    {Detection(100, 50, 140, 90, {}), Detection(0, 95, 300, 200, {}),
     Detection(100, 0, 140, 44, {1}), Detection(140, 44, 300, 50, {1}),
     Detection(0, 90, 100, 95, {})}

SampleLists == {<<>>} \cup {<<d>> : d \in SampleBoxes}
                      \cup {<<d, e>> : d \in SampleBoxes, e \in SampleBoxes}

\* np.sum(object_a.mask & object_b.mask) > 0
MaskOverlap(a, b) == a.mask \cap b.mask # {}

\* "over" with the tolerance taken the other way
OverAbove(a, b) ==
    LET horizontal_overlap == b.bbox[1] <= a.center[1] /\ a.center[1] <= b.bbox[3]
        vertical_position == a.bbox[4] >= b.bbox[2] + OverTolerance
    IN horizontal_overlap /\ (vertical_position \/ MaskOverlap(a, b))

Over(a, b) ==
    LET horizontal_overlap == b.bbox[1] <= a.center[1] /\ a.center[1] <= b.bbox[3]
        vertical_position == a.bbox[4] >= b.bbox[2] - OverTolerance
    IN horizontal_overlap /\ (vertical_position \/ MaskOverlap(a, b))

check_spatial_relationship(a, b, relationship) ==
    CASE relationship = "over" -> Over(a, b)
      [] relationship = "on" -> MaskOverlap(a, b)
      [] relationship = "inside" ->
            /\ a.bbox[1] >= b.bbox[1] /\ a.bbox[2] >= b.bbox[2]
            /\ a.bbox[3] <= b.bbox[3] /\ a.bbox[4] <= b.bbox[4]
      [] relationship = "near" ->
            (a.center[1] - b.center[1]) * (a.center[1] - b.center[1])
              + (a.center[2] - b.center[2]) * (a.center[2] - b.center[2])
              < NearDistance * NearDistance
      [] OTHER -> FALSE

RECURSIVE SpatialLoop(_, _, _, _, _)
\* `for primary in primary_detections: for secondary in secondary_detections`,
\* from the pair (i, j) on: triggered is set by every related pair
SpatialLoop(primaries, secondaries, relationship, i, j) ==
    IF i > Len(primaries) THEN FALSE
    ELSE IF j > Len(secondaries)
    THEN SpatialLoop(primaries, secondaries, relationship, i + 1, 1)
    ELSE LET is_related == check_spatial_relationship(primaries[i], secondaries[j],
                                                      relationship)
             rest == SpatialLoop(primaries, secondaries, relationship, i, j + 1)
         IN is_related \/ rest

\* the arguments of a call of check_spatial_relationship
CheckArgs ==
    {[kind |-> "check_args", a |-> a, b |-> b, relationship |-> relationship] :
        a \in Boxes(PrimaryEdgesX), b \in Boxes(EdgesX), relationship \in Relationships}

\* the detections and the relation of a spatial rule under evaluation
RuleArgs ==
    {[kind |-> "rule_args", primaries |-> primaries, secondaries |-> secondaries,
      relationship |-> relationship] :
        primaries \in SampleLists, secondaries \in SampleLists,
        relationship \in Relationships}

\* one call of check_spatial_relationship
CheckSpatial ==
    /\ spatial.kind = "check_args"
    /\ spatial' = [kind |-> "check", a |-> spatial.a, b |-> spatial.b,
                   relationship |-> spatial.relationship,
                   result |-> check_spatial_relationship(spatial.a, spatial.b,
                                                         spatial.relationship)]
    /\ UNCHANGED <<frame_buffer, frame_count, since_clear, pre_roll, recorder,
                   stop_calls>>
    /\ UNCHANGED <<alertVars, inferVars, camVars>>

\* _evaluate_single_rule for a rule of type OBJECT_OVER_OBJECT
EvaluateSpatialRule ==
    /\ spatial.kind = "rule_args"
    /\ spatial' = [kind |-> "rule", primaries |-> spatial.primaries,
                   secondaries |-> spatial.secondaries,
                   relationship |-> spatial.relationship,
                   triggered |-> SpatialLoop(spatial.primaries, spatial.secondaries,
                                             spatial.relationship, 1, 1)]
    /\ UNCHANGED <<frame_buffer, frame_count, since_clear, pre_roll, recorder,
                   stop_calls>>
    /\ UNCHANGED <<alertVars, inferVars, camVars>>

InitSpatial ==
    /\ consecutive_frames = DETECTION_CONSECUTIVE_FRAMES
    /\ AlertsStarted(<<>>)
    /\ use_streaming = TRUE
    /\ InferenceIdle
    /\ CamerasIdle
    /\ frame_buffer = <<>>
    /\ frame_count = 0
    /\ since_clear = 0
    /\ pre_roll = NoPreRoll
    /\ spatial \in CheckArgs \cup RuleArgs
    /\ recorder = NoRecording
    /\ stop_calls = [c \in StopCallers |-> NoStop]

NextSpatial ==
    \/ CheckSpatial
    \/ EvaluateSpatialRule

SpecSpatial == InitSpatial /\ [][NextSpatial]_vars

get_rule_states ==
    [rid \in {r \in RuleIds : InDict(r)} |->
        [rule_id |-> rid,
         is_in_alert |-> rule_states[rid].is_in_alert,
         current_alert_id |-> rule_states[rid].current_alert_id,
         consecutive_detections |-> rule_states[rid].consecutive_detections]]

\* C29: while the alert-end callbacks of a closing alert run (the pipeline
\* manager's handler is waiting for the post-roll or writing the alert
\* record), get_rule_states still reports the rule in alert with that alert
\* id: the flag and the id are cleared only after the callbacks.
C29_CloseOrdering ==
    ( /\ loop.pc \in {"end_postroll", "end_db"}
      /\ loop.attached
      /\ InDict(loop.rule_id) ) =>
        /\ get_rule_states[loop.rule_id].is_in_alert
        /\ get_rule_states[loop.rule_id].current_alert_id = loop.alert


\* ---------------------------------------------------------------- recorder
\* settings.RECORDING_PRE_ROLL_SECONDS
RECORDING_PRE_ROLL_SECONDS == 5

\* settings.RECORDING_INCLUDE_AUDIO: audio mode, or silent mode
RecordingModes == {"audio", "silent"}

\* how the splice of _concatenate_recordings goes: every step succeeds;
\* ffprobe prints nothing (the default duration is used); reading the
\* duration raises (ffprobe cannot be run, or prints no number); adding the
\* silent track exits non-zero; the concatenation exits non-zero
SpliceOutcomes == {"ok", "probe_empty", "probe_raises", "add_audio_fails",
                   "concat_fails"}

SpliceFailures == {"probe_raises", "add_audio_fails", "concat_fails"}

\* start_recording up to the pre-roll snapshot
StartRecording ==
    /\ recorder.pc = "idle"
    /\ \E mode \in RecordingModes, fps \in FpsChoices :
         LET pre_roll_frames ==
                 get_pre_roll_frames(frame_buffer, 2 * RECORDING_PRE_ROLL_SECONDS, fps)
         IN recorder' = [recorder EXCEPT !.mode = mode, !.pc = "snapshot",
                                         !.snapshot = pre_roll_frames,
                                         !.due = pre_roll_frames]
    /\ UNCHANGED <<frame_buffer, frame_count, since_clear, pre_roll, spatial, stop_calls>>
    /\ UNCHANGED <<alertVars, inferVars, camVars>>

\* _start_video_only_recording: the writer is opened (or RuntimeError), the
\* pre-roll frames are written, the callback is subscribed
StartVideoOnly ==
    /\ recorder.pc = "snapshot"
    /\ recorder.mode = "silent"
    /\ \E opened \in BOOLEAN :
         recorder' = IF opened
                     THEN [recorder EXCEPT !.pc = "built", !.written = recorder.snapshot,
                                           !.subscribed = TRUE, !.files = {"output"},
                                           !.output = "video"]
                     ELSE [recorder EXCEPT !.pc = "failed", !.due = <<>>]
    /\ UNCHANGED <<frame_buffer, frame_count, since_clear, pre_roll, spatial, stop_calls>>
    /\ UNCHANGED <<alertVars, inferVars, camVars>>

\* _start_audio_recording: the pre-roll clip is written when there are
\* pre-roll frames (or RuntimeError), the capture subprocess is started
StartAudio ==
    /\ recorder.pc = "snapshot"
    /\ recorder.mode = "audio"
    /\ \E opened \in BOOLEAN :
         recorder' = IF opened \/ recorder.snapshot = <<>>
                     THEN [recorder EXCEPT !.pc = "built",
                                           !.has_pre_roll = recorder.snapshot # <<>>,
                                           !.files = IF recorder.snapshot # <<>>
                                                     THEN {"pre_roll"} ELSE {}]
                     ELSE [recorder EXCEPT !.pc = "failed"]
    /\ UNCHANGED <<frame_buffer, frame_count, since_clear, pre_roll, spatial, stop_calls>>
    /\ UNCHANGED <<alertVars, inferVars, camVars>>

\* `async with self._lock: self._active_recordings[recording_id] = recording`
StartRegister ==
    /\ recorder.pc = "built"
    /\ recorder' = [recorder EXCEPT !.pc = "active", !.registered = TRUE]
    /\ UNCHANGED <<frame_buffer, frame_count, since_clear, pre_roll, spatial, stop_calls>>
    /\ UNCHANGED <<alertVars, inferVars, camVars>>

\* RECORDING_MAX_DURATION_SECONDS have passed since started_at
MaxDurationPasses ==
    /\ recorder.pc = "active"
    /\ ~recorder.expired
    /\ recorder' = [recorder EXCEPT !.expired = TRUE]
    /\ UNCHANGED <<frame_buffer, frame_count, since_clear, pre_roll, spatial, stop_calls>>
    /\ UNCHANGED <<alertVars, inferVars, camVars>>

\* stop_recording up to its post-roll sleep: an id that is not in
\* _active_recordings returns None at once
StopRecordingBegin(c) ==
    /\ stop_calls[c].pc = "idle"
    /\ recorder.pc \in {"active", "failed"}
    /\ stop_calls' =
          [stop_calls EXCEPT ![c] =
              IF recorder.registered
              THEN [@ EXCEPT !.pc = "postroll",
                             !.second = \E d \in StopCallers : stop_calls[d].pc # "idle"]
              ELSE [@ EXCEPT !.pc = "returned", !.result = "none",
                             !.second = \E d \in StopCallers : stop_calls[d].pc # "idle"]]
    /\ UNCHANGED <<frame_buffer, frame_count, since_clear, pre_roll, spatial, recorder>>
    /\ UNCHANGED <<alertVars, inferVars, camVars>>

\* _concatenate_recordings with the files at hand: what is left on disk,
\* which clip the output holds, and whether the call raised
concatenate_recordings(files, outcome) ==
    IF "main" \notin files
    THEN [files |-> IF "pre_roll" \in files THEN (files \ {"pre_roll"}) \cup {"output"}
                    ELSE files,
          output |-> IF "pre_roll" \in files THEN "pre_roll" ELSE "none",
          raised |-> FALSE]
    ELSE IF outcome = "probe_raises"
    THEN [files |-> files \ {"pre_roll", "main"}, output |-> "none", raised |-> TRUE]
    ELSE IF outcome \in {"add_audio_fails", "concat_fails"}
    THEN [files |-> (files \ {"pre_roll", "main"}) \cup {"output"}, output |-> "main",
          raised |-> FALSE]
    ELSE [files |-> (files \ {"pre_roll", "main"}) \cup {"output"}, output |-> "spliced",
          raised |-> FALSE]

\* _stop_audio_recording once the capture subprocess is stopped
stop_audio_recording(r, files, outcome) ==
    IF r.has_pre_roll /\ "pre_roll" \in files
    THEN concatenate_recordings(files, outcome)
    ELSE IF "main" \in files
    THEN [files |-> (files \ {"main"}) \cup {"output"}, output |-> "main",
          raised |-> FALSE]
    ELSE [files |-> files, output |-> "none", raised |-> FALSE]

\* stop_recording after the post-roll sleep: the recording is finalised
\* (audio: subprocess stopped and clips spliced; silent: callback
\* unsubscribed and writer released)
StopFinalise(c) ==
    /\ stop_calls[c].pc = "postroll"
    /\ IF recorder.mode = "audio"
       THEN \E main_written \in BOOLEAN, outcome \in SpliceOutcomes :
              LET files == IF main_written /\ "output" \notin recorder.files
                           THEN recorder.files \cup {"main"} ELSE recorder.files
                  done == stop_audio_recording(recorder, files, outcome)
                  spliced == recorder.has_pre_roll /\ {"pre_roll", "main"} \subseteq files
              IN /\ recorder' = [recorder EXCEPT !.files = done.files,
                                                 !.output = IF done.output # "none"
                                                            THEN done.output ELSE @]
                 /\ stop_calls' =
                       [stop_calls EXCEPT ![c] =
                           [@ EXCEPT !.pc = IF done.raised THEN "raised" ELSE "finalised",
                                     !.result = IF done.raised THEN "error" ELSE @,
                                     !.outcome = IF spliced THEN outcome ELSE "none",
                                     !.had_main = "main" \in files]]
       ELSE /\ recorder' = [recorder EXCEPT !.subscribed = FALSE, !.released = TRUE]
            /\ stop_calls' = [stop_calls EXCEPT ![c] = [@ EXCEPT !.pc = "finalised"]]
    /\ UNCHANGED <<frame_buffer, frame_count, since_clear, pre_roll, spatial>>
    /\ UNCHANGED <<alertVars, inferVars, camVars>>

\* `del self._active_recordings[recording_id]` (KeyError when the id is
\* gone), then the thumbnail and the web transcode, whose errors are
\* caught; the metadata is returned
StopDeregister(c) ==
    /\ stop_calls[c].pc = "finalised"
    /\ IF recorder.registered
       THEN /\ recorder' = [recorder EXCEPT !.registered = FALSE]
            /\ stop_calls' = [stop_calls EXCEPT ![c] =
                                 [@ EXCEPT !.pc = "returned", !.result = "metadata"]]
       ELSE /\ recorder' = recorder
            /\ stop_calls' = [stop_calls EXCEPT ![c] =
                                 [@ EXCEPT !.pc = "raised", !.result = "error"]]
    /\ UNCHANGED <<frame_buffer, frame_count, since_clear, pre_roll, spatial>>
    /\ UNCHANGED <<alertVars, inferVars, camVars>>

NextRecorder ==
    \/ AppendFrame
    \/ StartRecording
    \/ StartVideoOnly
    \/ StartAudio
    \/ StartRegister
    \/ MaxDurationPasses
    \/ \E c \in StopCallers : StopRecordingBegin(c)
    \/ \E c \in StopCallers : StopFinalise(c)
    \/ \E c \in StopCallers : StopDeregister(c)

SpecRecorder == InitBuffer /\ [][NextRecorder]_vars

\* C30: in silent mode the writer holds the pre-roll snapshot followed by
\* every frame captured after the snapshot was taken, in capture order, up
\* to the stop or to the maximum duration, each frame once.
C30_NoGap ==
    (recorder.mode = "silent" /\ recorder.pc = "active") =>
        recorder.written = recorder.due

\* C24: when a stop_recording call for an active recording has finished,
\* with the metadata or with an error of the finalisation, the recording is
\* no longer in _active_recordings.
C24_StopDeregisters ==
    \A c \in StopCallers :
        (stop_calls[c].pc \in {"returned", "raised"} /\ stop_calls[c].result # "none")
            => ~recorder.registered

\* C25: a stop_recording call that begins after another call for the same
\* recording has begun (that one may still be in its post-roll wait)
\* returns None, without an error and without a second finalisation (the
\* runs in which no splice step fails are enough to tell).
C25_DoubleStopNoOp ==
    \A c \in StopCallers :
        ( /\ stop_calls[c].second
          /\ stop_calls[c].pc \in {"returned", "raised"}
          /\ \A d \in StopCallers : stop_calls[d].outcome \notin SpliceFailures )
            => stop_calls[c].result = "none"

\* C26: in audio mode a splice that fails in one of its steps does not fail
\* stop_recording: the output is a single clip, the main clip with audio,
\* and that file is left on disk.
C26_SpliceFallback ==
    \A c \in StopCallers :
        stop_calls[c].outcome \in SpliceFailures =>
            /\ stop_calls[c].pc # "raised"
            /\ recorder.output = "main"
            /\ "output" \in recorder.files


\* C31: a failed read sends the capture loop into a reconnect when and only
\* when the count of consecutive failed reads, that read included, is
\* strictly greater than max_consecutive_failures; a successful read sets
\* the counter to 0.
C31_ReadFailureThreshold ==
    [][\A s \in StreamIds :
         streams[s].thread = "read" =>
            /\ streams'[s].thread = "reconnect" =>
                  streams[s].failures + 1 > max_consecutive_failures
            /\ (streams'[s].thread = "top" /\ streams'[s].failures > 0) =>
                  streams'[s].failures <= max_consecutive_failures
            /\ streams'[s].fresh => streams'[s].failures = 0]_vars


\* C32: a sample cycle that finds no frame, or no configured target, counts
\* as non-triggering: after it the consecutive-detections counter of every
\* rule of the camera that is not in alert is 0.
C32_SkippedCycleResets ==
    (loop.pc = "sleep" /\ loop.skipped # "none") =>
        \A rid \in RuleIds :
            (InDict(rid) /\ ~rule_states[rid].is_in_alert)
                => rule_states[rid].consecutive_detections = 0


\* C33: the call that holds the manager's lock is never waiting with it:
\* not for the cancelled per-camera task to end, and not in the join of the
\* capture thread.
C33_LockHeldBriefly ==
    mgr.pc # "idle" => mgr.pc \notin {"cancel", "join"}


\* C34: in silent mode no frame is written once the elapsed time is above
\* the maximum duration; reaching the cap changes neither the rule states
\* nor the open-alert map nor the set of recordings (none ends, none is
\* started); the recording leaves _active_recordings only through a
\* stop_recording call.
C34_CapDecoupled ==
    /\ [][(recorder.mode = "silent" /\ recorder.expired)
             => recorder'.written = recorder.written]_vars
    /\ [][(~recorder.expired /\ recorder'.expired) =>
             /\ recorder'.registered = recorder.registered
             /\ recorder'.pc = recorder.pc
             /\ recorder'.subscribed = recorder.subscribed
             /\ rule_states' = rule_states
             /\ active_alerts' = active_alerts
             /\ active_recordings' = active_recordings
             /\ next_recording' = next_recording
             /\ next_alert' = next_alert]_vars
    /\ [][(recorder.registered /\ ~recorder'.registered) =>
             \E c \in StopCallers : /\ stop_calls[c].pc = "finalised"
                                    /\ stop_calls'[c].pc = "returned"]_vars

\* the cap was reached with the recording registered and subscribed, the
\* frame before the last was written, the last one was not
C34_Witness ==
    /\ recorder.mode = "silent"
    /\ recorder.expired
    /\ recorder.registered
    /\ recorder.subscribed
    /\ recorder.written # <<>>
    /\ recorder.written[Len(recorder.written)] = frame_count - 1
    /\ frame_buffer # <<>>
    /\ frame_buffer[Len(frame_buffer)] = frame_count


\* C35: a remove_rule call for a rule with an open alert invokes the
\* alert-end callbacks for that alert id (so that its recording is stopped
\* and its open-alert map entry is taken out).
C35_RemoveRuleClosesAlert ==
    [][\A rid \in RuleIds :
         ( /\ InDict(rid)
           /\ rule_states[rid].is_in_alert
           /\ rule_states[rid].current_alert_id # NULL
           /\ rule_states'[rid] = NoState ) =>
             LET a == rule_states[rid].current_alert_id
             IN /\ \A c \in Consumers : endCnt'[c][a] = endCnt[c][a] + 1
                /\ active_alerts'[a] = NULL]_vars


\* C36: once the end of an alert has been processed by the pipeline
\* manager's handler and every reaction has returned (the loop sleeps, no
\* rule mutation is in flight), no open-alert map entry and no
\* ActiveRecording of that alert is left, also when the end was processed
\* while the alert-start reaction was still suspended before its
\* start_recording call.
C36_RecordingStoppedAtAlertEnd ==
    \A a \in AlertIds :
        ( /\ endCnt["pm"][a] >= 1
          /\ loop.pc = "sleep"
          /\ api.pc = "idle" ) =>
            /\ active_alerts[a] = NULL
            /\ \A x \in active_recordings : x.alert_id # a


\* ------------------------------------------------ a camera with its rules
\* the per-camera task of the registered stream has not ended
LoopTaskRuns ==
    \E s \in StreamIds : pipelines[CameraId].stream = s /\ tasks[s] = "run"

\* One camera that was added, with one enabled rule; the camera answers.
InitRemove ==
    /\ consecutive_frames = DETECTION_CONSECUTIVE_FRAMES
    /\ \E r1 \in RulesFor("r1") : AlertsStarted(<<r1>>)
    /\ use_streaming = TRUE
    /\ InferenceIdle
    /\ manager_running = TRUE
    /\ \E s \in StreamIds :
         /\ \A t \in StreamIds : s <= t
         /\ pipelines = [c \in {CameraId} |-> [stream |-> s, is_running |-> TRUE]]
         /\ streams = [t \in StreamIds |->
                          IF t = s THEN Start([NewStream EXCEPT !.made = TRUE], TRUE).stream
                          ELSE NewStream]
         /\ tasks = [t \in StreamIds |-> IF t = s THEN "run" ELSE "none"]
    /\ mgr = MgrIdle
    /\ reachable = TRUE
    /\ last_add = [result |-> "created", untouched |-> FALSE, clean |-> TRUE]
    /\ removed = {}
    /\ MediaIdle

\* the per-camera loop runs as long as its task does; remove_camera cancels
\* the task wherever it is suspended and stops the stream
NextRemove ==
    \/ Tick
    \/ LoopTaskRuns /\ LoopWake
    \/ LoopTaskRuns /\ LoopDetected
    \/ LoopTaskRuns /\ LoopStartRecording
    \/ LoopTaskRuns /\ LoopTriggeredReturn
    \/ LoopTaskRuns /\ LoopStopRecording
    \/ LoopTaskRuns /\ LoopEndedReturn
    \/ RemoveCamera
    \/ TaskCancelled
    \/ StopBegin
    \/ StopJoined
    \/ \E s \in StreamIds : ReadLoopTop(s)
    \/ \E s \in StreamIds : ReadFrame(s)

SpecRemove == InitRemove /\ [][NextRemove]_vars

\* C37: after remove_camera has returned no rule of the camera is in alert
\* and no ActiveRecording of the camera is left, wherever the per-camera
\* task was cancelled.
C37_RemoveCameraLeavesNothing ==
    (removed # {} /\ mgr.pc = "idle" /\ ~Present(CameraId)) =>
        /\ \A rid \in RuleIds : InDict(rid) => ~rule_states[rid].is_in_alert
        /\ active_recordings = {}


\* -------------------------------------------- rule mutations with a debounce
\* One registered rule; DETECTION_CONSECUTIVE_FRAMES is the default or a
\* configured debounce.
InitUpdate ==
    /\ consecutive_frames \in ConsecutiveFramesChoices
    /\ \E r1 \in RulesFor("r1") : AlertsStarted(<<r1>>)
    /\ use_streaming = TRUE
    /\ InferenceIdle
    /\ CamerasIdle
    /\ MediaIdle

SpecUpdate == InitUpdate /\ [][Next]_vars

\* C38: update_rule of a registered rule keeps the rule's debounce threshold
\* (required_consecutive stays what register_rule gave it) and its
\* last-triggered time.
C38_UpdateKeepsThreshold ==
    [][UpdateRule =>
         \A rid \in RuleIds :
            (InDict(rid) /\ rule_states'[rid] # rule_states[rid]) =>
                /\ rule_states'[rid].required_consecutive
                       = rule_states[rid].required_consecutive
                /\ rule_states'[rid].last_triggered = rule_states[rid].last_triggered]_vars


\* --------------------------------------- the rule registry and the rule list
\* add_camera of an absent camera that answers: a new stream is started and a
\* new PipelineState is stored, whose rules and active_alerts are empty, with
\* a new per-camera task.
AddCameraPipeline ==
    /\ mgr.pc = "idle"
    /\ ~Present(CameraId)
    /\ FreeStreams # {}
    /\ LET s == CHOOSE x \in FreeStreams : \A y \in FreeStreams : x <= y
           r == Start([NewStream EXCEPT !.made = TRUE], reachable)
       IN /\ r.ok
          /\ streams' = [streams EXCEPT ![s] = r.stream]
          /\ pipelines' = [pipelines EXCEPT ![CameraId] =
                              [stream |-> s, is_running |-> TRUE]]
          /\ tasks' = [tasks EXCEPT ![s] = "run"]
          /\ last_add' = [result |-> "created", untouched |-> FALSE, clean |-> reachable]
    /\ rules' = <<>>
    /\ active_alerts' = [a \in 0..MaxAlerts |-> NULL]
    /\ loop' = LoopSleeping(0)
    /\ log' = <<>>
    /\ UNCHANGED <<consecutive_frames, rule_states, entries, next_alert,
                   active_recordings, next_recording, api, ops, startCnt, endCnt,
                   replaced, since_end>>
    /\ UNCHANGED ghostVars
    /\ UNCHANGED <<manager_running, mgr, reachable, removed>>
    /\ UNCHANGED <<inferVars, mediaVars>>

\* add_rule while the rule's camera has no pipeline: the rule is registered
\* in the engine and appended nowhere.
AddRuleNoPipeline ==
    /\ api.pc = "idle"
    /\ mgr.pc = "idle"
    /\ ~Present(CameraId)
    /\ ops < MaxOps
    /\ \E rid \in RuleIds : \E rule \in RulesFor(rid) :
         /\ Len(DictInsert(rid)) <= MaxEntries
         /\ RegisterRule(rule)
         /\ Forget(rid)
    /\ ops' = ops + 1
    /\ log' = <<>>
    /\ UNCHANGED <<consecutive_frames, next_alert, rules, active_alerts,
                   active_recordings, next_recording, api, startCnt, endCnt, replaced,
                   since_end>>
    /\ UNCHANGED <<inferVars, camVars, mediaVars>>

\* a camera with one rule is removed and added again (restart_camera), and a
\* rule is added while the camera has no pipeline
NextRegistry ==
    \/ Tick
    \/ LoopTaskRuns /\ LoopWake
    \/ LoopTaskRuns /\ LoopDetected
    \/ LoopTaskRuns /\ LoopStartRecording
    \/ LoopTaskRuns /\ LoopTriggeredReturn
    \/ LoopTaskRuns /\ LoopStopRecording
    \/ LoopTaskRuns /\ LoopEndedReturn
    \/ AddRuleNoPipeline
    \/ RemoveCamera
    \/ TaskCancelled
    \/ StopBegin
    \/ StopJoined
    \/ AddCameraPipeline
    \/ \E s \in StreamIds : ReadLoopTop(s)
    \/ \E s \in StreamIds : ReadFrame(s)

SpecRegistry == InitRemove /\ [][NextRegistry]_vars

\* the rules of the camera that the engine holds, and those of the pipeline
RegisteredIds ==
    {rid \in RuleIds : InDict(rid) /\ rule_states[rid].rule.camera_id = CameraId}

PipelineRuleIds == {rules[i].id : i \in 1..Len(rules)}

\* C39: whenever no camera or rule operation is in progress, the rules the
\* engine holds for a camera with a pipeline are the rules of the pipeline's
\* list, so every registered rule of a running camera is sampled.
C39_RegistryAgreesWithList ==
    (Present(CameraId) /\ mgr.pc = "idle" /\ api.pc = "idle") =>
        RegisteredIds = PipelineRuleIds


\* ------------------------------------- the writer and the capture thread
\* a subscribe or unsubscribe that does not wait for the stream's _lock
LockFreeAlways(r) == TRUE

\* `with self._lock` of subscribe and unsubscribe: the capture thread holds
\* the lock while it runs the callbacks
LockFree(r) == r.cb = "idle"

\* the capture thread takes the stream's _lock, stores the frame and starts
\* the callbacks; _write_frame gets as far as writer.write when the
\* recording is registered, video-only and within its maximum duration
FrameLock ==
    /\ frame_count < MaxCaptured
    /\ recorder.cb = "idle"
    /\ frame_count' = frame_count + 1
    /\ frame_buffer' = DequeAppend(frame_buffer, frame_count + 1, BufferCapacity)
    /\ since_clear' = since_clear + 1
    /\ LET n == Notify(recorder, frame_count + 1)
       IN recorder' = IF n.written # recorder.written
                      THEN [recorder EXCEPT !.due = n.due, !.cb = "writing"]
                      ELSE n
    /\ UNCHANGED <<pre_roll, spatial, stop_calls>>
    /\ UNCHANGED <<alertVars, inferVars, camVars>>

\* writer.write returns, the callbacks are over and the lock is released
FrameWritten ==
    /\ recorder.cb = "writing"
    /\ recorder' = [recorder EXCEPT !.written = Append(@, frame_count), !.cb = "idle"]
    /\ UNCHANGED <<frame_buffer, frame_count, since_clear, pre_roll, spatial, stop_calls>>
    /\ UNCHANGED <<alertVars, inferVars, camVars>>

\* _stop_video_only_recording, first statement: unsubscribe, under the lock
StopUnsubscribe(c) ==
    /\ stop_calls[c].pc = "postroll"
    /\ recorder.mode = "silent"
    /\ LockFree(recorder)
    /\ recorder' = [recorder EXCEPT !.subscribed = FALSE]
    /\ stop_calls' = [stop_calls EXCEPT ![c] = [@ EXCEPT !.pc = "unsubscribed"]]
    /\ UNCHANGED <<frame_buffer, frame_count, since_clear, pre_roll, spatial>>
    /\ UNCHANGED <<alertVars, inferVars, camVars>>

\* _stop_video_only_recording, second statement: writer.release()
StopRelease(c) ==
    /\ stop_calls[c].pc = "unsubscribed"
    /\ recorder' = [recorder EXCEPT !.released = TRUE]
    /\ stop_calls' = [stop_calls EXCEPT ![c] = [@ EXCEPT !.pc = "finalised"]]
    /\ UNCHANGED <<frame_buffer, frame_count, since_clear, pre_roll, spatial>>
    /\ UNCHANGED <<alertVars, inferVars, camVars>>

NextWriter ==
    \/ FrameLock
    \/ FrameWritten
    \/ StartRecording
    \/ LockFree(recorder) /\ StartVideoOnly
    \/ StartAudio
    \/ StartRegister
    \/ MaxDurationPasses
    \/ \E c \in StopCallers : StopRecordingBegin(c)
    \/ \E c \in StopCallers : StopUnsubscribe(c)
    \/ \E c \in StopCallers : StopRelease(c)
    \/ \E c \in StopCallers : recorder.mode = "audio" /\ StopFinalise(c)
    \/ \E c \in StopCallers : StopDeregister(c)

SpecWriter == InitBuffer /\ [][NextWriter]_vars

\* C40: in silent mode the frame callback is never inside writer.write once
\* stop has released the writer: no write runs while the writer is being
\* released and none starts after it.
C40_NoWriteAfterClose ==
    (recorder.mode = "silent" /\ recorder.released) => recorder.cb # "writing"

C40_Witness ==
    /\ recorder.mode = "silent"
    /\ recorder.released
    /\ recorder.cb = "idle"
    /\ Len(recorder.written) > Len(recorder.snapshot)
    /\ frame_count > recorder.written[Len(recorder.written)]

====
